---- MODULE Spec2Model ----
(***************************************************************************)
(* Model of the agentik_v4 pipeline.                                       *)
(*                                                                         *)
(*   scripts/discover.py      search providers (quota, retry, pagination)  *)
(*                            and the keyword x provider discovery loop    *)
(*   scripts/run_parallel.py  the pool of audit workers, the live-process  *)
(*                            registry, the process-tree termination and   *)
(*                            the signal handler                           *)
(*                                                                         *)
(* Time is abstracted: a sleep is part of the step that performs it, a     *)
(* timeout is a step that is possible while the awaited process is alive.  *)
(***************************************************************************)
EXTENDS Integers, Sequences, FiniteSets, TLC

(***************************************************************************)
(* Bounds of the model                                                     *)
(***************************************************************************)
\* largest daily_quota_threshold a configuration gives a provider
MaxQuota == 2
\* largest retry_attempts a configuration gives a provider
MaxRetry == 2
\* the retry loop is followed up to this many requests for one page
MaxAttempts == 4
\* largest --max-results
MaxResults == 2
\* largest number of keywords of a configuration
MaxKeywords == 2
\* largest number of lines of configs/domains.txt
NumUrls == 2
\* largest number of descendants one audit process spawns
MaxDesc == 2
\* urls handed to the single worker whose process trees are followed
TreeUrls == 1
\* longest raw string given to normalize_domain, in pieces of text
MaxLen == 4
\* longest list given to unique_sorted
MaxList == 2
\* largest base and largest cap given to backoff_delays, in half seconds
MaxSeconds == 4
\* largest number of lines of a robots.txt
MaxLines == 2
\* largest rate given to a RateLimiter, in half requests per second
MaxRps == 4
\* random.uniform(-jitter, jitter) is sampled at k * jitter / JitterSteps for
\* k in -JitterSteps .. JitterSteps
JitterSteps == 2

(***************************************************************************)
(* Program constants                                                       *)
(***************************************************************************)
\* GoogleCSEProvider.query: per_page = 10
per_page == 10
\* GoogleCSEProvider.query: while ... and start_index <= 91
last_start_index == 91
\* main: --max-results, default=100
default_max_results == 100
\* BaseProvider: backoff_base_seconds default 0.5 s, in half seconds
backoff_base_seconds == 1
\* BaseProvider: backoff_max_seconds default 8.0 s, in half seconds
backoff_max_seconds == 16

\* run_parallel.main: workers = 4
workers == 4

Providers == {"google_cse", "duckduckgo"}

\* the order in which main() appends the providers it constructs
ProviderOrder == <<"google_cse", "duckduckgo">>

\* requests.get outcomes the keyed-API provider distinguishes
RetryableCodes == {429, 503}
TerminalCodes == {403, 500}

Min(a, b) == IF a < b THEN a ELSE b
Max(a, b) == IF a > b THEN a ELSE b

VARIABLES
    \* ---- provider configuration (fixed at construction)
    daily_quota_threshold,  \* [Providers -> Nat]
    retry_attempts,         \* [Providers -> Nat]
    api_key_cx,             \* both Google credentials are set
    DDGS,                   \* the ddgs package was imported
    max_results,            \* --max-results
    rate_limit_rps,         \* rate of the providers' limiters, in half requests per second
    jitter_percent,         \* jitter of the providers' limiters
    ddg_allowed,            \* DuckDuckGoProvider.ddg_allowed
    ddg_crawl_delay,        \* DuckDuckGoProvider.ddg_crawl_delay: <<>> for None, else <<seconds>>
    \* ---- provider state
    queries_made,           \* [Providers -> Nat]
    \* ---- the query call in progress (one thread: at most one)
    qpc,                    \* "idle", "g_try" (Google retry loop), "d_try" (DDG retry loop)
    results,                \* len(results)
    start_index,
    attempt,
    ret,                    \* length of the list the last call returned, -1 before any
    pauses,                 \* the limiter and crawl-delay waits of the call since its
                            \* last remote request
    \* ---- observation of the calls
    last,                   \* what the last step of a provider did
    admitted,               \* [Providers -> Nat] calls that passed the quota check
    terminal,               \* the call in progress has received a non-retryable status
    \* ---- discovery loop of main()
    mpc,                    \* "loop", "query", "done"
    keywords,               \* len(keywords)
    providers,              \* the list main() built
    kw,                     \* index of the keyword of the outer loop
    pv,                     \* index of the provider of the inner loop
    issued,                 \* [Providers -> Nat] query calls the loop made
    skipped,                \* [Providers -> Nat] pairs the loop skipped
    provider_usage,         \* provider -> [queries_made, domains], the usage summary
    contributed,            \* [Providers -> Nat] domains the calls of the loop gave so far
    \* ---- what main() of discover.py starts from
    cfg_keywords,           \* what the YAML gives for "keywords": "missing", "empty",
                            \* "list", "string", "number"
    writable,               \* args.output can be opened for writing
    selected,               \* providers that --provider and the enabled flags select
    robots_fetched,         \* number of robots.txt fetches so far
    robots_resp,            \* what a GET of duckduckgo.com/robots.txt gives
    \* ---- run_parallel.py: the batch
    urls,                   \* len(urls); task i audits urls[i], its process has pid i
    pool,                   \* the worker processes of the Pool
    next_task,              \* the next task the Pool hands to a worker
    outcome,                \* task -> the dict run_lighthouse returned, or NoOutcome
    overtaken,              \* some task returned before a task submitted earlier
    \* ---- the main process
    apc,                    \* "imap", "unwind", "summary", "final", "exited"
    imap_results,           \* the list main() builds from pool.imap
    interrupted,            \* SIGINT/SIGTERM has been sent to the run
    success_count,
    failed_count,
    \* ---- the worker processes
    wpc,                    \* worker -> place in run_lighthouse or in the handler
    wtask,                  \* worker -> task of the run_lighthouse call, 0 if none
    ctx,                    \* worker -> who called kill_chrome_tree
    kpid,                   \* worker -> parent_pid of the kill_chrome_tree call
    children,               \* worker -> the list parent.children(recursive=True) gave
    todo,                   \* worker -> pids left in cleanup_all_chrome's list(CHROME_PIDS)
    swept,                  \* task -> calls of kill_chrome_tree on its pid by cleanup_all_chrome
    termed,                 \* worker -> processes the call sent terminate(), 0 the root
    killed,                 \* worker -> processes the call sent kill(), 0 the root
    CHROME_PIDS,            \* process -> its copy of the module global, 0 the main process
    \* ---- the operating system
    root,                   \* task -> "none", "alive", "zombie" (exited, not waited for), "reaped"
    descAlive,              \* task -> descendants of the root that are alive
    spawned,                \* task -> number of descendants spawned so far
    \* ---- a helper of discover.py called on its own, as the unit tests do
    call,                   \* the helper that was called, "none" before the call
    arg,                    \* its argument
    val                     \* what it returned

provVars == <<daily_quota_threshold, retry_attempts, api_key_cx, DDGS, max_results,
              rate_limit_rps, jitter_percent, ddg_allowed, ddg_crawl_delay>>
callVars == <<queries_made, qpc, results, start_index, attempt, ret, pauses, last, admitted,
              terminal>>
startVars == <<cfg_keywords, writable, selected, robots_fetched, robots_resp>>
usageVars == <<provider_usage, contributed>>
mainVars == <<mpc, keywords, providers, kw, pv, issued, skipped, usageVars, startVars>>
discoverVars == <<provVars, callVars, mainVars>>
batchVars == <<urls, pool, next_task, outcome, overtaken>>
mainProcVars == <<apc, imap_results, interrupted, success_count, failed_count>>
workerVars == <<wpc, wtask, ctx, kpid, children, todo, termed, killed>>
osVars == <<root, descAlive, spawned>>
auditVars == <<batchVars, mainProcVars, workerVars, swept, CHROME_PIDS, osVars>>
helperVars == <<call, arg, val>>
vars == <<discoverVars, auditVars, helperVars>>

(***************************************************************************)
(* Helpers of discover.py                                                  *)
(***************************************************************************)
RECURSIVE backoff_from(_, _, _)
backoff_from(cur, max_s, n) ==
    IF n = 0 THEN <<>>
    ELSE <<cur>> \o backoff_from(Min(max_s, cur * 2), max_s, n - 1)

backoff_delays(base, max_s, attempts) ==
    backoff_from(base, max_s, Max(0, attempts - 1))

\* mutant of can_continue: the comparison admits one call too many
can_continue_inclusive(p) ==
    queries_made[p] <= daily_quota_threshold[p]

can_continue(p) ==
    queries_made[p] < daily_quota_threshold[p]

delays(p) ==
    backoff_delays(backoff_base_seconds, backoff_max_seconds, retry_attempts[p])

(***************************************************************************)
(* Text. A string is a sequence of pieces: the characters the helpers look *)
(* for (" ", "/", ":", ".") and words that contain none of them and are    *)
(* no prefix of one another.                                               *)
(***************************************************************************)
Least(S) == CHOOSE i \in S : \A j \in S : i <= j
Greatest(S) == CHOOSE i \in S : \A j \in S : i >= j

\* str.lower() on one piece
lower_piece(c) ==
    CASE c = "WWW" -> "www"
      [] c = "A" -> "a"
      [] c = "B" -> "b"
      [] c = "COM" -> "com"
      [] c = "HTTPS" -> "https"
      [] OTHER -> c

\* str.lower()
lower(s) == [i \in 1 .. Len(s) |-> lower_piece(s[i])]

\* str.strip()
strip(s) ==
    LET I == {i \in 1 .. Len(s) : s[i] # " "}
    IN  IF I = {} THEN <<>> ELSE SubSeq(s, Least(I), Greatest(I))

\* s.split("//", 1)[-1]
after_double_slash(s) ==
    LET I == {i \in 1 .. Len(s) - 1 : s[i] = "/" /\ s[i + 1] = "/"}
    IN  IF I = {} THEN s ELSE SubSeq(s, Least(I) + 2, Len(s))

\* s.split(c, 1)[0]
before_first(s, c) ==
    LET I == {i \in 1 .. Len(s) : s[i] = c}
    IN  IF I = {} THEN s ELSE SubSeq(s, 1, Least(I) - 1)

\* s.startswith("www.")
startswith_www(s) ==
    Len(s) >= 2 /\ s[1] = "www" /\ s[2] = "."

normalize_domain(raw) ==
    LET d1 == strip(raw)
        d2 == after_double_slash(d1)
        d3 == before_first(d2, "/")
        d4 == before_first(d3, ":")
        d5 == lower(d4)
    IN  IF startswith_www(d5) THEN SubSeq(d5, 3, Len(d5)) ELSE d5

\* the pieces in the order of Python's string comparison
PieceOrder ==
    <<" ", ".", "/", "4", "443", "8", ":", "A", "B", "COM", "HTTPS", "WWW",
      "a", "a*250", "b", "com", "http", "https", "localhost", "www", "x", "y">>

piece_rank(c) == CHOOSE i \in 1 .. Len(PieceOrder) : PieceOrder[i] = c

\* s < t for two strings
str_less(s, t) ==
    \E k \in 1 .. Len(t) :
        /\ k <= Len(s) + 1
        /\ \A i \in 1 .. k - 1 : s[i] = t[i]
        /\ k = Len(s) + 1 \/ piece_rank(s[k]) < piece_rank(t[k])

\* sorted(S) for a set of strings
RECURSIVE sorted(_)
sorted(S) ==
    IF S = {} THEN <<>>
    ELSE LET m == CHOOSE x \in S : \A y \in S \ {x} : str_less(x, y)
         IN  <<m>> \o sorted(S \ {m})

unique_sorted(domains) ==
    sorted({normalize_domain(domains[i]) :
              i \in {j \in 1 .. Len(domains) : normalize_domain(domains[j]) # <<>>}})

\* number of characters of a piece and of a string
piece_len(c) ==
    CASE c = "a*250" -> 250
      [] c \in {" ", ".", "/", "4", "8", ":", "A", "B", "a", "b", "x", "y"} -> 1
      [] OTHER -> IF c \in {"COM", "WWW", "com", "www", "443"} THEN 3
                  ELSE IF c = "http" THEN 4
                  ELSE IF c \in {"HTTPS", "https"} THEN 5
                  ELSE 9

RECURSIVE str_len(_)
str_len(s) ==
    IF s = <<>> THEN 0 ELSE piece_len(s[1]) + str_len(SubSeq(s, 2, Len(s)))

\* the label after the last dot
final_label(s) ==
    LET I == {i \in 1 .. Len(s) : s[i] = "."}
    IN  IF I = {} THEN s ELSE SubSeq(s, Greatest(I) + 1, Len(s))

Digits == {"4", "8", "443"}

\* validate(domain): rejects the empty string, localhost, literal IPv4
\* addresses, strings over 253 characters and strings without both a dot
\* and a non-numeric final label
is_valid(domain) ==
    /\ domain # <<>>
    /\ domain # <<"localhost">>
    /\ str_len(domain) <= 253
    /\ \E i \in 1 .. Len(domain) : domain[i] = "."
    /\ final_label(domain) # <<>>
    /\ \E i \in 1 .. Len(final_label(domain)) : final_label(domain)[i] \notin Digits

\* spellings the pattern (?i)crawl-?delay matches
CrawlDelayWords == {"crawl-delay", "Crawl-delay", "CRAWLDELAY"}

\* pieces the class [0-9.] matches
NumberPieces == {"0", "2", "3", "5", "."}

\* first index from i on that holds no white space, Len(line) + 1 if none
skip_space(line, i) ==
    Least({j \in i .. Len(line) : line[j] # " "} \cup {Len(line) + 1})

\* where a match of \s*crawl-?delay\s*:\s* that starts at index i ends (the
\* index after it), 0 when there is none
prefix_end(line, i) ==
    LET a == skip_space(line, i)
        b == skip_space(line, a + 1)
    IN  IF a <= Len(line) /\ line[a] \in CrawlDelayWords
           /\ b <= Len(line) /\ line[b] = ":"
        THEN skip_space(line, b + 1)
        ELSE 0

\* re.match(r"(?i)\s*crawl-?delay\s*:\s*[0-9.]+", line)
re_match(line) ==
    LET e == prefix_end(line, 1)
    IN  e # 0 /\ e <= Len(line) /\ line[e] \in NumberPieces

\* re.sub(r"(?i)\s*crawl-?delay\s*:\s*", "", line), from index i on
RECURSIVE re_sub(_, _)
re_sub(line, i) ==
    IF i > Len(line) THEN <<>>
    ELSE IF prefix_end(line, i) # 0 THEN re_sub(line, prefix_end(line, i))
    ELSE <<line[i]>> \o re_sub(line, i + 1)

\* float(s) does not raise: digits with at most one point
is_float(s) ==
    /\ \A i \in 1 .. Len(s) : s[i] \in NumberPieces
    /\ \E i \in 1 .. Len(s) : s[i] # "."
    /\ Cardinality({i \in 1 .. Len(s) : s[i] = "."}) <= 1

\* robots_txt is the list robots_txt.splitlines() gives; the number is
\* returned as it is written, None as the empty sequence
parse_crawl_delay(robots_txt) ==
    LET M == {k \in 1 .. Len(robots_txt) : re_match(robots_txt[k])}
    IN  IF M = {} THEN <<>>
        ELSE LET rest == strip(re_sub(robots_txt[Least(M)], 1))
             IN  IF is_float(rest) THEN rest ELSE <<>>

\* exact fractions num / den, den > 0, for the limiter's float arithmetic
Q(n, d) == [num |-> n, den |-> d]

RECURSIVE gcd(_, _)
gcd(a, b) == IF b = 0 THEN a ELSE gcd(b, a % b)

\* the fraction in lowest terms
reduced(n, d) ==
    LET g == gcd(IF n < 0 THEN -n ELSE n, d)
    IN  Q(n \div g, d \div g)

q_add(a, b) == reduced(a.num * b.den + b.num * a.den, a.den * b.den)

q_mul(a, b) == reduced(a.num * b.num, a.den * b.den)

q_le(a, b) == a.num * b.den <= b.num * a.den

q_eq(a, b) == a.num * b.den = b.num * a.den

\* interval = 1.0 / self.rps, rps counted in half requests per second
interval(rps) == Q(2, rps)

\* jitter = interval * (self.jitter_pct / 100.0)
jitter(rps, jitter_pct) == q_mul(interval(rps), Q(jitter_pct, 100))

\* random.uniform(-j, j), the draw being the k-th sample point
uniform(j, k) == q_mul(j, Q(k, JitterSteps))

\* a limiter that sleeps whatever the delay
wait_unfloored(rps, jitter_pct, k) ==
    IF rps <= 0 THEN <<>>
    ELSE <<q_add(interval(rps), uniform(jitter(rps, jitter_pct), k))>>

\* RateLimiter.wait: the list of time.sleep calls it makes
wait(rps, jitter_pct, k) ==
    IF rps <= 0 THEN <<>>
    ELSE LET delay == q_add(interval(rps), uniform(jitter(rps, jitter_pct), k))
         IN  IF delay.num > 0 THEN <<delay>> ELSE <<>>

\* value of a digit
digit_of(c) ==
    CASE c = "0" -> 0 [] c = "2" -> 2 [] c = "3" -> 3 [] c = "5" -> 5

RECURSIVE int_of(_)
int_of(s) ==
    IF s = <<>> THEN 0
    ELSE 10 * int_of(SubSeq(s, 1, Len(s) - 1)) + digit_of(s[Len(s)])

\* float(s) of a string is_float accepts
float(s) ==
    LET point == {i \in 1 .. Len(s) : s[i] = "."}
        places == IF point = {} THEN 0 ELSE Len(s) - Least(point)
    IN  Q(int_of(SelectSeq(s, LAMBDA c : c # ".")), 10 ^ places)

\* a response to the GET of robots.txt; status 0 stands for an exception
\* raised by requests.get
Response(status, text) == [status |-> status, text |-> text]

\* a fetch_robots_and_delay that blocks the host when the fetch fails
fetch_robots_and_delay_closed(resp) ==
    IF resp.status # 200
    THEN [allowed |-> FALSE, delay |-> <<>>]
    ELSE LET d == parse_crawl_delay(resp.text)
         IN  [allowed |-> TRUE, delay |-> IF d = <<>> THEN <<>> ELSE <<float(d)>>]

\* fetch_robots_and_delay: (allowed, delay), the delay None as <<>>
fetch_robots_and_delay(resp) ==
    IF resp.status # 200
    THEN [allowed |-> TRUE, delay |-> <<>>]
    ELSE LET d == parse_crawl_delay(resp.text)
         IN  [allowed |-> TRUE, delay |-> IF d = <<>> THEN <<>> ELSE <<float(d)>>]

\* seconds slept by the waits of a log
RECURSIVE slept(_)
slept(log) ==
    IF log = <<>> THEN Q(0, 1)
    ELSE LET e == log[Len(log)]
             rest == slept(SubSeq(log, 1, Len(log) - 1))
         IN  IF e.sleeps = <<>> THEN rest ELSE q_add(rest, e.sleeps[1])

\* a _respect_ddg_delay that sleeps only what the crawl-delay exceeds the
\* time already waited by
respect_ddg_delay_max(log) ==
    LET before == slept(log)
        more == IF ddg_crawl_delay = <<>> THEN Q(0, 1)
                ELSE q_add(ddg_crawl_delay[1], Q(-before.num, before.den))
    IN  Append(log, [kind |-> "crawl_delay",
                     sleeps |-> IF more.num > 0 THEN <<more>> ELSE <<>>])

\* self._respect_ddg_delay(): time.sleep(self.ddg_crawl_delay) when the
\* cached delay is neither None nor 0
respect_ddg_delay(log) ==
    Append(log, [kind |-> "crawl_delay",
                 sleeps |-> IF ddg_crawl_delay # <<>> /\ ddg_crawl_delay[1].num > 0
                            THEN ddg_crawl_delay ELSE <<>>])

\* the sample points random.uniform(-jitter, jitter) is drawn from: all of
\* them are 0 when the jitter is 0
JitterDraws ==
    IF jitter_percent = 0 THEN {0} ELSE -JitterSteps .. JitterSteps

\* self._sleep_limiter(): the logs that can follow log, one per draw of the
\* limiter's jitter
sleep_limiter(log) ==
    {Append(log, [kind |-> "limiter",
                  sleeps |-> wait(rate_limit_rps, jitter_percent, k)]) :
       k \in JitterDraws}

(***************************************************************************)
(* Search providers: query()                                               *)
(***************************************************************************)
\* steps that issue a request to the remote service
RequestSteps ==
    {"http_ok", "http_retry", "http_exhausted", "http_non200",
     "net_retry", "net_exhausted", "http_unknown",
     "ddg_ok", "ddg_retry", "ddg_giveup"}

\* self.queries_made += 1
CountQuery(p) ==
    [queries_made EXCEPT ![p] = @ + 1]

\* mutant of CountRetry: every re-issued request counts as a query
CountRetry_per_request(p) ==
    [queries_made EXCEPT ![p] = @ + 1]

\* the counter while the retry loop re-issues a request
CountRetry(p) ==
    queries_made

\* `return []` of a call the quota check refuses
Refuse(p) ==
    /\ ~can_continue(p)
    /\ ret' = 0
    /\ last' = "blocked"
    /\ pauses' = <<>>
    /\ UNCHANGED <<queries_made, qpc, results, start_index, attempt, admitted, terminal>>

\* mutant of AttemptOnly: the early return forgets to count the attempt
AttemptOnly_uncounted(p) ==
    /\ ret' = 0
    /\ last' = "attempt_only"
    /\ admitted' = [admitted EXCEPT ![p] = @ + 1]
    /\ terminal' = FALSE
    /\ pauses' \in (IF p = "google_cse" THEN sleep_limiter(<<>>) ELSE {<<>>})
    /\ UNCHANGED <<queries_made, qpc, results, start_index, attempt>>

\* an admitted call that returns before any request: missing credentials
\* (Google, after self._sleep_limiter()) or missing ddgs package (DuckDuckGo,
\* before it)
AttemptOnly(p) ==
    /\ queries_made' = CountQuery(p)
    /\ ret' = 0
    /\ last' = "attempt_only"
    /\ admitted' = [admitted EXCEPT ![p] = @ + 1]
    /\ terminal' = FALSE
    /\ pauses' \in (IF p = "google_cse" THEN sleep_limiter(<<>>) ELSE {<<>>})
    /\ UNCHANGED <<qpc, results, start_index, attempt>>

\* self.queries_made += 1; return results[:max_results]
Return(p, r, a, s) ==
    /\ queries_made' = CountQuery(p)
    /\ ret' = Min(r, max_results)
    /\ qpc' = "idle"
    /\ results' = r
    /\ attempt' = a
    /\ start_index' = s

\* GoogleCSEProvider.query up to its first request
GoogleEnter ==
    \/ Refuse("google_cse")
    \/ /\ can_continue("google_cse")
       /\ ~api_key_cx
       /\ AttemptOnly("google_cse")
    \/ /\ can_continue("google_cse")
       /\ api_key_cx
       /\ admitted' = [admitted EXCEPT !["google_cse"] = @ + 1]
       /\ terminal' = FALSE
       /\ last' = "enter"
       /\ pauses' \in sleep_limiter(<<>>)
       /\ IF 0 < max_results
          THEN /\ qpc' = "g_try"
               /\ results' = 0
               /\ start_index' = 1
               /\ attempt' = 0
               /\ UNCHANGED <<queries_made, ret>>
          ELSE Return("google_cse", 0, 0, 1)

\* the retry loop was left with r results: lines after it (the break, or
\* the cursor advance and self._sleep_limiter()), the loop condition and,
\* when the loop ends, the return
GoogleAfterPage(r) ==
    IF r >= max_results
    THEN /\ Return("google_cse", r, attempt + 1, start_index)
         /\ pauses' = <<>>
    ELSE /\ pauses' \in sleep_limiter(<<>>)
         /\ IF start_index + per_page <= last_start_index
            THEN /\ start_index' = start_index + per_page
                 /\ attempt' = 0
                 /\ results' = r
                 /\ UNCHANGED <<queries_made, ret, qpc>>
            ELSE Return("google_cse", r, attempt + 1, start_index + per_page)

\* the request is re-issued after time.sleep(delays[idx])
GoogleContinue ==
    /\ attempt' = attempt + 1
    /\ queries_made' = CountRetry("google_cse")
    /\ pauses' = <<>>
    /\ UNCHANGED <<ret, qpc, results, start_index>>

\* idx = min(attempt - 1, len(delays) - 1); idx >= 0 and idx < len(delays),
\* attempt being the number of the request that just failed
GoogleMayRetry(a) ==
    LET idx == Min(a - 1, Len(delays("google_cse")) - 1)
    IN  idx >= 0 /\ idx < Len(delays("google_cse"))

\* one requests.get of GoogleCSEProvider.query and what follows it up to the
\* next request or the return
GoogleOk ==
    /\ qpc = "g_try" /\ attempt < MaxAttempts
    /\ UNCHANGED <<helperVars, provVars, mainVars, auditVars>>
    /\ \E n \in 0 .. Min(per_page, max_results - results) :
          GoogleAfterPage(results + n)
    /\ last' = "http_ok"
    /\ UNCHANGED <<admitted, terminal>>

GoogleRetryable ==
    /\ qpc = "g_try" /\ attempt < MaxAttempts
    /\ UNCHANGED <<helperVars, provVars, mainVars, auditVars>>
    /\ \E code \in RetryableCodes :
          IF GoogleMayRetry(attempt + 1)
          THEN GoogleContinue /\ last' = "http_retry"
          ELSE GoogleAfterPage(results) /\ last' = "http_exhausted"
    /\ UNCHANGED <<admitted, terminal>>

GoogleNon200 ==
    /\ qpc = "g_try" /\ attempt < MaxAttempts
    /\ UNCHANGED <<helperVars, provVars, mainVars, auditVars>>
    /\ \E code \in TerminalCodes : GoogleAfterPage(results)
    /\ last' = "http_non200"
    /\ terminal' = TRUE
    /\ UNCHANGED admitted

GoogleNetworkError ==
    /\ qpc = "g_try" /\ attempt < MaxAttempts
    /\ UNCHANGED <<helperVars, provVars, mainVars, auditVars>>
    /\ IF GoogleMayRetry(attempt + 1)
       THEN GoogleContinue /\ last' = "net_retry"
       ELSE GoogleAfterPage(results) /\ last' = "net_exhausted"
    /\ UNCHANGED <<admitted, terminal>>

GoogleUnknownError ==
    /\ qpc = "g_try" /\ attempt < MaxAttempts
    /\ UNCHANGED <<helperVars, provVars, mainVars, auditVars>>
    /\ GoogleAfterPage(results)
    /\ last' = "http_unknown"
    /\ UNCHANGED <<admitted, terminal>>

\* DuckDuckGoProvider.query up to its first attempt
DdgEnter ==
    \/ Refuse("duckduckgo")
    \/ /\ can_continue("duckduckgo")
       /\ ~DDGS
       /\ AttemptOnly("duckduckgo")
    \/ /\ can_continue("duckduckgo")
       /\ DDGS
       /\ admitted' = [admitted EXCEPT !["duckduckgo"] = @ + 1]
       /\ terminal' = FALSE
       /\ last' = "enter"
       /\ qpc' = "d_try"
       /\ results' = 0
       /\ attempt' = 0
       /\ pauses' \in {respect_ddg_delay(log) : log \in sleep_limiter(<<>>)}
       /\ UNCHANGED <<queries_made, ret, start_index>>

\* one attempt against the ddgs dependency that succeeds
DdgOk ==
    /\ qpc = "d_try"
    /\ UNCHANGED <<helperVars, provVars, mainVars, auditVars>>
    /\ \E n \in 0 .. max_results :
          Return("duckduckgo", results + n, attempt + 1, start_index)
    /\ last' = "ddg_ok"
    /\ pauses' = <<>>
    /\ UNCHANGED <<admitted, terminal>>

\* mutant of DdgError: the comparison allows one attempt more
DdgError_one_more ==
    /\ qpc = "d_try"
    /\ UNCHANGED <<helperVars, provVars, mainVars, auditVars>>
    /\ \E n \in 0 .. max_results :
          IF attempt + 1 <= Len(delays("duckduckgo")) + 1
          THEN /\ attempt' = attempt + 1
               /\ results' = results + n
               /\ queries_made' = CountRetry("duckduckgo")
               /\ last' = "ddg_retry"
               /\ UNCHANGED <<ret, qpc, start_index>>
          ELSE /\ Return("duckduckgo", results + n, attempt + 1, start_index)
               /\ last' = "ddg_giveup"
    /\ pauses' = <<>>
    /\ UNCHANGED <<admitted, terminal>>

\* one attempt that raises, after the for loop has appended n urls:
\* attempt <= len(delays) sleeps delays[attempt - 1] and retries, otherwise
\* the loop is left and the call returns
DdgError ==
    /\ qpc = "d_try"
    /\ UNCHANGED <<helperVars, provVars, mainVars, auditVars>>
    /\ \E n \in 0 .. max_results :
          IF attempt + 1 <= Len(delays("duckduckgo"))
          THEN /\ attempt' = attempt + 1
               /\ results' = results + n
               /\ queries_made' = CountRetry("duckduckgo")
               /\ last' = "ddg_retry"
               /\ UNCHANGED <<ret, qpc, start_index>>
          ELSE /\ Return("duckduckgo", results + n, attempt + 1, start_index)
               /\ last' = "ddg_giveup"
    /\ pauses' = <<>>
    /\ UNCHANGED <<admitted, terminal>>

Enter(p) ==
    IF p = "google_cse" THEN GoogleEnter ELSE DdgEnter

(***************************************************************************)
(* A provider driven directly, as the integration tests drive it           *)
(***************************************************************************)
Range(s) == {s[i] : i \in 1 .. Len(s)}

ConfigOf(ps, quota, retry) ==
    /\ daily_quota_threshold = [p \in Providers |-> IF p \in ps THEN quota[p] ELSE 0]
    /\ retry_attempts = [p \in Providers |-> IF p \in ps THEN retry[p] ELSE 1]

\* DuckDuckGoProvider.__init__ fetches robots.txt once, GoogleCSEProvider
\* fetches nothing
RobotsFetches(ps) ==
    IF "duckduckgo" \in Range(ps) THEN 1 ELSE 0

\* a robots.txt without a crawl-delay
PlainRobots ==
    Response(200, <<<<"User-agent", ":", " ", "*">>, <<"Disallow", ":", " ", "/">>>>)

\* rate_limit_rps is left at its default 0.5; the jitter is configured off
DefaultLimiter ==
    /\ rate_limit_rps = 1
    /\ jitter_percent = 0

\* the providers ps have been constructed from a configuration with a list
\* of keywords; robots.txt, if fetched, held no crawl-delay
Constructed(ps) ==
    /\ cfg_keywords = "list"
    /\ writable = TRUE
    /\ selected = ps
    /\ robots_fetched = RobotsFetches(ps)
    /\ DefaultLimiter
    /\ robots_resp = PlainRobots
    /\ ddg_allowed = fetch_robots_and_delay(PlainRobots).allowed
    /\ ddg_crawl_delay = fetch_robots_and_delay(PlainRobots).delay

\* provider_usage = {p.name: {"queries_made": 0, "domains": 0} for p in providers}
NoUsage ==
    /\ provider_usage = [p \in Providers |-> [queries_made |-> 0, domains |-> 0]]
    /\ contributed = [p \in Providers |-> 0]

\* no helper is called on its own
HelperIdle ==
    /\ call = "none"
    /\ arg = <<>>
    /\ val = <<>>

InitCall ==
    /\ queries_made = [p \in Providers |-> 0]
    /\ qpc = "idle"
    /\ results = 0
    /\ start_index = 0
    /\ attempt = 0
    /\ ret = -1
    /\ pauses = <<>>
    /\ last = "init"
    /\ admitted = [p \in Providers |-> 0]
    /\ terminal = FALSE

\* run_parallel.py is not running
AuditIdle ==
    /\ urls = 0
    /\ pool = {}
    /\ next_task = 1
    /\ outcome = <<>>
    /\ overtaken = FALSE
    /\ apc = "exited"
    /\ imap_results = <<>>
    /\ interrupted = FALSE
    /\ success_count = 0
    /\ failed_count = 0
    /\ wpc = [w \in 1 .. workers |-> "absent"]
    /\ wtask = [w \in 1 .. workers |-> 0]
    /\ ctx = [w \in 1 .. workers |-> "none"]
    /\ kpid = [w \in 1 .. workers |-> 0]
    /\ children = [w \in 1 .. workers |-> {}]
    /\ todo = [w \in 1 .. workers |-> {}]
    /\ swept = <<>>
    /\ termed = [w \in 1 .. workers |-> {}]
    /\ killed = [w \in 1 .. workers |-> {}]
    /\ CHROME_PIDS = [p \in 0 .. workers |-> {}]
    /\ root = <<>>
    /\ descAlive = <<>>
    /\ spawned = <<>>

InitProvider ==
    /\ AuditIdle
    /\ HelperIdle
    /\ \E p \in Providers : providers = <<p>>
    /\ \E quota \in [Providers -> 0 .. MaxQuota], retry \in [Providers -> 1 .. MaxRetry] :
          ConfigOf(Range(providers), quota, retry)
    /\ api_key_cx \in BOOLEAN
    /\ DDGS \in BOOLEAN
    /\ max_results \in 1 .. MaxResults
    /\ InitCall
    /\ Constructed(providers)
    /\ mpc = "direct"
    /\ keywords = 0
    /\ kw = 0
    /\ pv = 0
    /\ issued = [p \in Providers |-> 0]
    /\ skipped = [p \in Providers |-> 0]
    /\ NoUsage

\* a test calls provider.query(keyword, max_results)
Query ==
    /\ mpc = "direct"
    /\ qpc = "idle"
    /\ \E p \in Range(providers) : Enter(p)
    /\ UNCHANGED <<helperVars, provVars, mainVars, auditVars>>

NextProvider ==
    \/ Query
    \/ GoogleOk
    \/ GoogleRetryable
    \/ GoogleNon200
    \/ GoogleNetworkError
    \/ GoogleUnknownError
    \/ DdgOk
    \/ DdgError

SpecProvider == InitProvider /\ [][NextProvider]_vars

(***************************************************************************)
(* main() of discover.py: the keyword x provider loop                      *)
(***************************************************************************)
InitDiscover ==
    /\ AuditIdle
    /\ HelperIdle
    /\ providers \in {<<"google_cse">>, <<"duckduckgo">>, ProviderOrder}
    /\ \E quota \in [Providers -> 0 .. MaxQuota], retry \in 1 .. MaxRetry :
          ConfigOf(Range(providers), quota, [p \in Providers |-> retry])
    /\ api_key_cx \in BOOLEAN
    /\ DDGS \in BOOLEAN
    /\ max_results = MaxResults
    /\ InitCall
    /\ Constructed(providers)
    /\ mpc = "loop"
    /\ keywords \in 1 .. MaxKeywords
    /\ kw = 1
    /\ pv = 1
    /\ issued = [p \in Providers |-> 0]
    /\ skipped = [p \in Providers |-> 0]
    /\ NoUsage

\* the urls the search services hold, in the order they return them
Catalogue ==
    <<<<"https", ":", "/", "/", "a", ".", "com", "/", "x">>,
      <<"A", ".", "COM">>,
      <<"b", ".", "com">>,
      <<"/", "x">>>>

\* res, a list of n urls
Res(n) ==
    [k \in 1 .. n |-> Catalogue[((k - 1) % Len(Catalogue)) + 1]]

\* a loop body that overwrites the domains of the summary
Accumulate_overwrite(domains, n) ==
    n

\* provider_usage[prov.name]["domains"] += len(nd)
Accumulate(domains, n) ==
    domains + n

\* the distinct non-empty normalized domains among the urls a call returned
returned_domains(res) ==
    {normalize_domain(res[i]) : i \in 1 .. Len(res)} \ {<<>>}

\* nd = unique_sorted(res) and the two updates of provider_usage
Usage ==
    LET p == providers[pv]
        nd == unique_sorted(Res(ret))
    IN  /\ provider_usage' = [provider_usage EXCEPT ![p] =
                                 [queries_made |-> queries_made[p],
                                  domains |-> Accumulate(@.domains, Len(nd))]]
        /\ contributed' = [contributed EXCEPT ![p] = @ + Cardinality(returned_domains(Res(ret)))]

\* the next (keyword, provider) pair of the nested for loops
Advance ==
    IF pv < Len(providers)
    THEN pv' = pv + 1 /\ kw' = kw
    ELSE pv' = 1 /\ kw' = kw + 1

\* if not prov.can_continue(): ...; continue
LoopSkip ==
    /\ mpc = "loop" /\ kw <= keywords
    /\ ~can_continue(providers[pv])
    /\ skipped' = [skipped EXCEPT ![providers[pv]] = @ + 1]
    /\ Advance
    /\ UNCHANGED <<helperVars, provVars, callVars, mpc, keywords, providers, issued, usageVars,
                   startVars, auditVars>>

\* res = prov.query(kw, max_results=args.max_results)
LoopQuery ==
    /\ mpc = "loop" /\ kw <= keywords
    /\ can_continue(providers[pv])
    /\ Enter(providers[pv])
    /\ issued' = [issued EXCEPT ![providers[pv]] = @ + 1]
    /\ mpc' = "query"
    /\ UNCHANGED <<helperVars, provVars, keywords, providers, kw, pv, skipped, usageVars,
                   startVars, auditVars>>

\* mutant of LoopCollect: an empty result makes the loop try the pair again
LoopCollect_retry_empty ==
    /\ mpc = "query" /\ qpc = "idle"
    /\ mpc' = "loop"
    /\ IF ret = 0 THEN UNCHANGED <<kw, pv>> ELSE Advance
    /\ Usage
    /\ UNCHANGED <<helperVars, provVars, callVars, keywords, providers, issued, skipped, startVars, auditVars>>

\* the call has returned: the rest of the loop body
LoopCollect ==
    /\ mpc = "query" /\ qpc = "idle"
    /\ mpc' = "loop"
    /\ Advance
    /\ Usage
    /\ UNCHANGED <<helperVars, provVars, callVars, keywords, providers, issued, skipped, startVars, auditVars>>

\* the loops are over: the output is written (run without --dry-run) and
\* the summary logged; args.output.open("w") raises when the path cannot be
\* written
LoopDone ==
    /\ mpc = "loop" /\ kw > keywords
    /\ mpc' = IF writable THEN "done" ELSE "crash"
    /\ UNCHANGED <<helperVars, provVars, callVars, keywords, providers, kw, pv, issued, skipped,
                   usageVars, startVars, auditVars>>

NextDiscover ==
    \/ LoopSkip
    \/ LoopQuery
    \/ LoopCollect
    \/ LoopDone
    \/ GoogleOk
    \/ GoogleRetryable
    \/ GoogleNon200
    \/ GoogleNetworkError
    \/ GoogleUnknownError
    \/ DdgOk
    \/ DdgError

SpecDiscover == InitDiscover /\ [][NextDiscover]_vars

(***************************************************************************)
(* main() of discover.py from its first line                               *)
(***************************************************************************)
CfgKeywords == {"missing", "empty", "list", "string", "number"}

\* bodies of a robots.txt
RobotsTexts ==
    {<<>>,
     <<<<"User-agent", ":", " ", "*">>, <<"Disallow", ":", " ", "/">>>>,
     <<<<"Crawl-delay", ":", " ", "2", ".", "5">>>>,
     <<<<"User-agent", ":", " ", "*">>, <<" ", " ", "CRAWLDELAY", " ", ":", "3", " ">>>>,
     <<<<"crawl-delay", ":", " ", "0">>>>,
     <<<<"crawl-delay", ":", " ", "5", " ", "#", " ", "x">>>>}

\* what the GET of robots.txt can give
RobotsResponses ==
    {Response(st, <<>>) : st \in {0, 404, 503}}
        \cup {Response(200, t) : t \in RobotsTexts}

\* every provider has a quota of one query, one attempt and --max-results 1
InitRun ==
    /\ AuditIdle
    /\ HelperIdle
    /\ ConfigOf(Providers, [p \in Providers |-> 1], [p \in Providers |-> 1])
    /\ api_key_cx \in BOOLEAN
    /\ DDGS \in BOOLEAN
    /\ max_results = 1
    /\ InitCall
    /\ mpc = "start"
    /\ cfg_keywords \in CfgKeywords
    /\ keywords \in 1 .. MaxKeywords
    /\ writable \in BOOLEAN
    /\ selected \in {<<>>, <<"google_cse">>, <<"duckduckgo">>, ProviderOrder}
    /\ robots_fetched = 0
    /\ DefaultLimiter
    /\ robots_resp \in RobotsResponses
    /\ ddg_allowed = TRUE
    /\ ddg_crawl_delay = <<>>
    /\ providers = <<>>
    /\ kw = 1
    /\ pv = 1
    /\ issued = [p \in Providers |-> 0]
    /\ skipped = [p \in Providers |-> 0]
    /\ NoUsage

\* cfg = load_config(args.config); keywords = cfg.get("keywords") or [];
\* if not keywords: sys.exit(2). load_config returns what the YAML holds,
\* a non-empty string or a number is truthy and passes
LoadConfig ==
    /\ mpc = "start"
    /\ mpc' = IF cfg_keywords \in {"missing", "empty"} THEN "exit2" ELSE "build"
    /\ UNCHANGED <<helperVars, provVars, callVars, keywords, providers, kw, pv, issued, skipped,
                   usageVars, startVars, auditVars>>

\* the providers are constructed (DuckDuckGoProvider.__init__ fetches
\* robots.txt); if not providers: sys.exit(3); then `for kw in keywords:`
\* starts, over the characters of a string, and raises TypeError on a number
BuildProviders ==
    /\ mpc = "build"
    /\ providers' = selected
    /\ robots_fetched' = robots_fetched + RobotsFetches(selected)
    /\ IF "duckduckgo" \in Range(selected)
       THEN /\ ddg_allowed' = fetch_robots_and_delay(robots_resp).allowed
            /\ ddg_crawl_delay' = fetch_robots_and_delay(robots_resp).delay
       ELSE UNCHANGED <<ddg_allowed, ddg_crawl_delay>>
    /\ mpc' = IF selected = <<>> THEN "exit3"
              ELSE IF cfg_keywords = "number" THEN "crash"
              ELSE "loop"
    /\ UNCHANGED <<helperVars, daily_quota_threshold, retry_attempts, api_key_cx, DDGS,
                   max_results, rate_limit_rps, jitter_percent, callVars, keywords, kw, pv,
                   issued, skipped, usageVars, cfg_keywords, writable, selected, robots_resp, auditVars>>

NextRun ==
    \/ LoadConfig
    \/ BuildProviders
    \/ LoopSkip
    \/ LoopQuery
    \/ LoopCollect
    \/ LoopDone
    \/ GoogleOk
    \/ GoogleRetryable
    \/ GoogleNon200
    \/ GoogleNetworkError
    \/ GoogleUnknownError
    \/ DdgOk
    \/ DdgError

SpecRun == InitRun /\ [][NextRun]_vars

(***************************************************************************)
(* A GoogleCSEProvider with its credentials, queried with the default      *)
(* --max-results                                                           *)
(***************************************************************************)
InitPaging ==
    /\ AuditIdle
    /\ HelperIdle
    /\ providers = <<"google_cse">>
    /\ \E retry \in 1 .. MaxRetry :
          ConfigOf({"google_cse"}, [p \in Providers |-> 1], [p \in Providers |-> retry])
    /\ api_key_cx = TRUE
    /\ DDGS = FALSE
    /\ max_results = default_max_results
    /\ InitCall
    /\ Constructed(providers)
    /\ mpc = "direct"
    /\ keywords = 0
    /\ kw = 0
    /\ pv = 0
    /\ issued = [p \in Providers |-> 0]
    /\ skipped = [p \in Providers |-> 0]
    /\ NoUsage

NextPaging ==
    \/ Query
    \/ GoogleOk
    \/ GoogleRetryable
    \/ GoogleNon200
    \/ GoogleNetworkError
    \/ GoogleUnknownError

SpecPaging == InitPaging /\ [][NextPaging]_vars

(***************************************************************************)
(* A DuckDuckGoProvider constructed against a robots.txt and driven         *)
(* directly                                                                *)
(***************************************************************************)
\* rate_limit_rps: no limit, the default 0.5 and 2 requests per second
LimiterRates == {0, 1, 4}

\* jitter_percent: none and the default 20
LimiterJitters == {0, 20}

\* the state DuckDuckGoProvider.__init__ leaves
InitDdg ==
    /\ AuditIdle
    /\ HelperIdle
    /\ providers = <<"duckduckgo">>
    /\ \E quota \in 0 .. MaxQuota, retry \in 1 .. MaxRetry :
          ConfigOf({"duckduckgo"}, [p \in Providers |-> quota], [p \in Providers |-> retry])
    /\ api_key_cx = FALSE
    /\ DDGS \in BOOLEAN
    /\ max_results \in 1 .. MaxResults
    /\ rate_limit_rps \in LimiterRates
    /\ jitter_percent \in LimiterJitters
    /\ robots_resp \in RobotsResponses
    /\ ddg_allowed = fetch_robots_and_delay(robots_resp).allowed
    /\ ddg_crawl_delay = fetch_robots_and_delay(robots_resp).delay
    /\ robots_fetched = 1
    /\ cfg_keywords = "list"
    /\ writable = TRUE
    /\ selected = providers
    /\ InitCall
    /\ mpc = "direct"
    /\ keywords = 0
    /\ kw = 0
    /\ pv = 0
    /\ issued = [p \in Providers |-> 0]
    /\ skipped = [p \in Providers |-> 0]
    /\ NoUsage

NextDdg ==
    \/ Query
    \/ DdgOk
    \/ DdgError

SpecDdg == InitDdg /\ [][NextDdg]_vars

(***************************************************************************)
(* run_parallel.py                                                         *)
(*                                                                         *)
(* Pool(processes=workers) runs run_lighthouse in worker processes; every  *)
(* process, the main one included, has its own copy of the module global   *)
(* CHROME_PIDS and the signal handlers the module installs when imported.  *)
(* A signal handler runs in the process that receives the signal, at the   *)
(* place that process has reached; sys.exit(0) in a worker ends the worker *)
(* (run_lighthouse catches Exception, not SystemExit).                     *)
(***************************************************************************)
Workers == 1 .. workers
Tasks == 1 .. urls

\* no process of the model is running discover.py
DiscoverIdle ==
    /\ daily_quota_threshold = [p \in Providers |-> 0]
    /\ retry_attempts = [p \in Providers |-> 1]
    /\ api_key_cx = FALSE
    /\ DDGS = FALSE
    /\ max_results = 1
    /\ InitCall
    /\ mpc = "done"
    /\ keywords = 0
    /\ providers = <<>>
    /\ kw = 0
    /\ pv = 0
    /\ issued = [p \in Providers |-> 0]
    /\ skipped = [p \in Providers |-> 0]
    /\ NoUsage
    /\ Constructed(providers)

NoOutcome == [url |-> 0, success |-> FALSE, error |-> "pending"]

\* the dicts run_lighthouse returns
Outcome(i, ok, err) == [url |-> i, success |-> ok, error |-> err]

InitAudit(n, ws) ==
    /\ DiscoverIdle
    /\ HelperIdle
    /\ urls = n
    /\ pool = ws
    /\ next_task = 1
    /\ outcome = [i \in 1 .. n |-> NoOutcome]
    /\ overtaken = FALSE
    /\ apc = "imap"
    /\ imap_results = <<>>
    /\ interrupted = FALSE
    /\ success_count = 0
    /\ failed_count = 0
    /\ wpc = [w \in Workers |-> IF w \in ws THEN "idle" ELSE "absent"]
    /\ wtask = [w \in Workers |-> 0]
    /\ ctx = [w \in Workers |-> "none"]
    /\ kpid = [w \in Workers |-> 0]
    /\ children = [w \in Workers |-> {}]
    /\ todo = [w \in Workers |-> {}]
    /\ swept = [i \in 1 .. n |-> 0]
    /\ termed = [w \in Workers |-> {}]
    /\ killed = [w \in Workers |-> {}]
    /\ CHROME_PIDS = [p \in 0 .. workers |-> {}]
    /\ root = [i \in 1 .. n |-> "none"]
    /\ descAlive = [i \in 1 .. n |-> {}]
    /\ spawned = [i \in 1 .. n |-> 0]

\* ---- the operating system: the audit process and what it spawns ----------

\* run_lighthouse, or the handler that interrupted it, is still dealing with
\* task i; afterwards no code of the script looks at its process tree again
InHand(i) ==
    \E w \in pool : wtask[w] = i

\* a process of the tree of task i forks
Spawn(i) ==
    /\ InHand(i)
    /\ root[i] = "alive" \/ descAlive[i] # {}
    /\ spawned[i] < MaxDesc
    /\ spawned' = [spawned EXCEPT ![i] = @ + 1]
    /\ descAlive' = [descAlive EXCEPT ![i] = @ \cup {spawned[i] + 1}]
    /\ UNCHANGED <<helperVars, discoverVars, swept, batchVars, mainProcVars, workerVars, CHROME_PIDS,
                   root>>

\* a descendant exits, of itself or because of a SIGTERM it was sent
DescExit(i) ==
    /\ InHand(i)
    /\ \E d \in descAlive[i] : descAlive' = [descAlive EXCEPT ![i] = @ \ {d}]
    /\ UNCHANGED <<helperVars, discoverVars, swept, batchVars, mainProcVars, workerVars, CHROME_PIDS,
                   root, spawned>>

\* the audit process exits of itself
RootExit(i) ==
    /\ InHand(i)
    /\ root[i] = "alive"
    /\ root' = [root EXCEPT ![i] = "zombie"]
    /\ UNCHANGED <<helperVars, discoverVars, swept, batchVars, mainProcVars, workerVars, CHROME_PIDS,
                   descAlive, spawned>>

\* ---- signal_handler in a worker -----------------------------------------

\* the workers of the set ws receive SIGINT or SIGTERM: each enters
\* signal_handler where it stands. cleanup_all_chrome takes list(CHROME_PIDS);
\* with an empty list it clears the set and sys.exit(0) ends the worker.
Signalled(ws) ==
    LET hit == {w \in ws : wpc[w] \notin {"absent", "exited"}}
        ends == {w \in hit : CHROME_PIDS[w] = {}}
    IN  /\ wpc' = [w \in Workers |->
                     IF w \notin hit THEN wpc[w]
                     ELSE IF w \in ends THEN "exited" ELSE "h_sweep"]
        /\ todo' = [w \in Workers |-> IF w \in hit THEN CHROME_PIDS[w] ELSE todo[w]]
        /\ ctx' = [w \in Workers |->
                     IF w \in ends THEN "none" ELSE IF w \in hit THEN "handler" ELSE ctx[w]]
        /\ wtask' = [w \in Workers |-> IF w \in ends THEN 0 ELSE wtask[w]]
        /\ kpid' = [w \in Workers |-> IF w \in ends THEN 0 ELSE kpid[w]]
        /\ children' = [w \in Workers |-> IF w \in ends THEN {} ELSE children[w]]
        /\ termed' = [w \in Workers |-> IF w \in ends THEN {} ELSE termed[w]]
        /\ killed' = [w \in Workers |-> IF w \in ends THEN {} ELSE killed[w]]

\* cleanup_all_chrome: the loop over list(CHROME_PIDS), then clear and exit
HandlerSweep(w) ==
    /\ wpc[w] = "h_sweep"
    /\ IF todo[w] = {}
       THEN /\ CHROME_PIDS' = [CHROME_PIDS EXCEPT ![w] = {}]
            /\ wpc' = [wpc EXCEPT ![w] = "exited"]
            /\ wtask' = [wtask EXCEPT ![w] = 0]
            /\ ctx' = [ctx EXCEPT ![w] = "none"]
            /\ kpid' = [kpid EXCEPT ![w] = 0]
            /\ children' = [children EXCEPT ![w] = {}]
            /\ termed' = [termed EXCEPT ![w] = {}]
            /\ killed' = [killed EXCEPT ![w] = {}]
            /\ UNCHANGED <<todo, swept>>
       ELSE /\ \E pid \in todo[w] :
                  /\ kpid' = [kpid EXCEPT ![w] = pid]
                  /\ todo' = [todo EXCEPT ![w] = @ \ {pid}]
                  /\ swept' = [swept EXCEPT ![pid] = @ + 1]
            /\ wpc' = [wpc EXCEPT ![w] = "k_enum"]
            /\ UNCHANGED <<CHROME_PIDS, wtask, ctx, children, termed, killed>>
    /\ UNCHANGED <<helperVars, discoverVars, batchVars, mainProcVars, osVars>>

\* ---- kill_chrome_tree ----------------------------------------------------

\* where kill_chrome_tree returns to
AfterKill(w) ==
    IF ctx[w] = "handler" THEN "h_sweep" ELSE "discard"

\* parent = psutil.Process(parent_pid); children = parent.children(recursive=True)
\* a pid that has been waited for raises NoSuchProcess; an exited parent has
\* no children left (they were reparented)
KillEnum(w) ==
    /\ wpc[w] = "k_enum"
    /\ termed' = [termed EXCEPT ![w] = {}]
    /\ killed' = [killed EXCEPT ![w] = {}]
    /\ IF root[kpid[w]] = "reaped"
       THEN /\ wpc' = [wpc EXCEPT ![w] = AfterKill(w)]
            /\ children' = [children EXCEPT ![w] = {}]
       ELSE /\ wpc' = [wpc EXCEPT ![w] = "k_term_children"]
            /\ children' = [children EXCEPT ![w] =
                              IF root[kpid[w]] = "alive" THEN descAlive[kpid[w]] ELSE {}]
    /\ UNCHANGED <<helperVars, discoverVars, swept, batchVars, mainProcVars, osVars, CHROME_PIDS,
                   wtask, ctx, kpid, todo>>

\* a kill_chrome_tree that skips the graceful terminate of the children
KillTermChildren_skipped(w) ==
    /\ wpc[w] = "k_term_children"
    /\ termed' = termed
    /\ wpc' = [wpc EXCEPT ![w] = "k_reap_children"]
    /\ UNCHANGED <<helperVars, discoverVars, swept, batchVars, mainProcVars, osVars, CHROME_PIDS,
                   wtask, ctx, kpid, children, todo, killed>>

\* for child in children: child.terminate()
KillTermChildren(w) ==
    /\ wpc[w] = "k_term_children"
    /\ termed' = [termed EXCEPT ![w] = children[w]]
    /\ wpc' = [wpc EXCEPT ![w] = "k_reap_children"]
    /\ UNCHANGED <<helperVars, discoverVars, swept, batchVars, mainProcVars, osVars, CHROME_PIDS,
                   wtask, ctx, kpid, children, todo, killed>>

\* gone, alive = psutil.wait_procs(children, timeout=2); for p in alive: p.kill()
KillStragglers(w) ==
    /\ wpc[w] = "k_reap_children"
    /\ LET alive == children[w] \cap descAlive[kpid[w]]
       IN  /\ killed' = [killed EXCEPT ![w] = alive]
           /\ descAlive' = [descAlive EXCEPT ![kpid[w]] = @ \ alive]
    /\ wpc' = [wpc EXCEPT ![w] = "k_term_parent"]
    /\ UNCHANGED <<helperVars, discoverVars, swept, batchVars, mainProcVars, CHROME_PIDS,
                   root, spawned,
                   wtask, ctx, kpid, children, todo, termed>>

\* parent.terminate()
KillTermParent(w) ==
    /\ wpc[w] = "k_term_parent"
    /\ termed' = [termed EXCEPT ![w] = @ \cup {0}]
    /\ wpc' = [wpc EXCEPT ![w] = "k_wait_parent"]
    /\ UNCHANGED <<helperVars, discoverVars, swept, batchVars, mainProcVars, osVars, CHROME_PIDS,
                   wtask, ctx, kpid, children, todo, killed>>

\* parent.wait(timeout=2), and parent.kill() when the wait times out
KillWaitParent(w) ==
    /\ wpc[w] = "k_wait_parent"
    /\ \/ /\ root[kpid[w]] \in {"alive", "zombie"}
          /\ root' = [root EXCEPT ![kpid[w]] = "reaped"]
          /\ UNCHANGED killed
       \/ /\ root[kpid[w]] = "alive"
          /\ root' = [root EXCEPT ![kpid[w]] = "zombie"]
          /\ killed' = [killed EXCEPT ![w] = @ \cup {0}]
    /\ wpc' = [wpc EXCEPT ![w] = AfterKill(w)]
    /\ UNCHANGED <<helperVars, discoverVars, swept, batchVars, mainProcVars, CHROME_PIDS,
                   descAlive, spawned,
                   wtask, ctx, kpid, children, todo, termed>>

\* ---- run_lighthouse ------------------------------------------------------

\* a run_lighthouse that leaves the pid in the registry
Discard_forgotten(w, pid) ==
    CHROME_PIDS

\* CHROME_PIDS.discard(proc.pid)
Discard(w, pid) ==
    [CHROME_PIDS EXCEPT ![w] = @ \ {pid}]

\* run_lighthouse returns r for task i: the worker waits for its next task
ReturnOutcome(w, i, r) ==
    /\ outcome' = [outcome EXCEPT ![i] = r]
    /\ overtaken' = (overtaken \/ \E j \in 1 .. i - 1 : outcome[j] = NoOutcome)
    /\ wpc' = [wpc EXCEPT ![w] = "idle"]
    /\ wtask' = [wtask EXCEPT ![w] = 0]
    /\ ctx' = [ctx EXCEPT ![w] = "none"]
    /\ kpid' = [kpid EXCEPT ![w] = 0]
    /\ children' = [children EXCEPT ![w] = {}]
    /\ termed' = [termed EXCEPT ![w] = {}]
    /\ killed' = [killed EXCEPT ![w] = {}]

\* the worker that takes the next task off the Pool's queue. The idle workers
\* are interchangeable (same code, empty registry): the one with the lowest
\* number stands for whichever of them gets the task.
NextIdle(w) ==
    /\ wpc[w] = "idle"
    /\ \A v \in pool : wpc[v] = "idle" => w <= v

\* an idle worker takes the next task; subprocess.Popen(...) starts the
\* audit process in a session of its own
Launch(w) ==
    /\ NextIdle(w)
    /\ next_task <= urls
    /\ next_task' = next_task + 1
    /\ root' = [root EXCEPT ![next_task] = "alive"]
    /\ wpc' = [wpc EXCEPT ![w] = "launched"]
    /\ wtask' = [wtask EXCEPT ![w] = next_task]
    /\ UNCHANGED <<helperVars, discoverVars, swept, urls, pool, outcome, overtaken, mainProcVars, CHROME_PIDS,
                   descAlive, spawned,
                   ctx, kpid, children, todo, termed, killed>>

\* an idle worker takes the next task and Popen raises: proc is None and
\* the except Exception branch returns the failure
LaunchFails(w) ==
    /\ NextIdle(w)
    /\ next_task <= urls
    /\ next_task' = next_task + 1
    /\ ReturnOutcome(w, next_task, Outcome(next_task, FALSE, "exception"))
    /\ UNCHANGED <<helperVars, discoverVars, swept, urls, pool, mainProcVars, CHROME_PIDS, osVars, todo>>

\* CHROME_PIDS.add(proc.pid)
Track(w) ==
    /\ wpc[w] = "launched"
    /\ CHROME_PIDS' = [CHROME_PIDS EXCEPT ![w] = @ \cup {wtask[w]}]
    /\ wpc' = [wpc EXCEPT ![w] = "communicate"]
    /\ UNCHANGED <<helperVars, discoverVars, swept, batchVars, mainProcVars, osVars,
                   wtask, ctx, kpid, children, todo, termed, killed>>

\* proc.communicate(timeout=60) returns: the process has exited and is
\* waited for; kill_chrome_tree(proc.pid) is called next
Completed(w) ==
    /\ wpc[w] = "communicate"
    /\ root[wtask[w]] = "zombie"
    /\ root' = [root EXCEPT ![wtask[w]] = "reaped"]
    /\ wpc' = [wpc EXCEPT ![w] = "k_enum"]
    /\ ctx' = [ctx EXCEPT ![w] = "normal"]
    /\ kpid' = [kpid EXCEPT ![w] = wtask[w]]
    /\ UNCHANGED <<helperVars, discoverVars, swept, batchVars, mainProcVars, CHROME_PIDS,
                   descAlive, spawned,
                   wtask, children, todo, termed, killed>>

\* proc.communicate(timeout=60) raises TimeoutExpired: the process has not
\* exited within the timeout
Timeout(w) ==
    /\ wpc[w] = "communicate"
    /\ root[wtask[w]] = "alive"
    /\ wpc' = [wpc EXCEPT ![w] = "k_enum"]
    /\ ctx' = [ctx EXCEPT ![w] = "timeout"]
    /\ kpid' = [kpid EXCEPT ![w] = wtask[w]]
    /\ UNCHANGED <<helperVars, discoverVars, swept, batchVars, mainProcVars, CHROME_PIDS, osVars,
                   wtask, children, todo, termed, killed>>

\* kill_chrome_tree has returned to run_lighthouse: discard the pid and
\* return the outcome. After a natural exit proc.returncode is 0 (success)
\* or not (failure with the decoded stderr); stderr.decode() may raise, which
\* the except Exception branch takes up with a second kill_chrome_tree.
Finish(w) ==
    /\ wpc[w] = "discard"
    /\ CHROME_PIDS' = Discard(w, wtask[w])
    /\ LET i == wtask[w]
       IN  CASE ctx[w] = "normal" ->
                  \/ ReturnOutcome(w, i, Outcome(i, TRUE, "none"))
                  \/ ReturnOutcome(w, i, Outcome(i, FALSE, "stderr"))
                  \/ /\ wpc' = [wpc EXCEPT ![w] = "k_enum"]
                     /\ ctx' = [ctx EXCEPT ![w] = "exception"]
                     /\ UNCHANGED <<outcome, overtaken, wtask, kpid, children, termed, killed>>
             [] ctx[w] = "timeout" ->
                  ReturnOutcome(w, i, Outcome(i, FALSE, "timeout"))
             [] ctx[w] = "exception" ->
                  ReturnOutcome(w, i, Outcome(i, FALSE, "exception"))
    /\ UNCHANGED <<helperVars, discoverVars, swept, urls, pool, next_task, mainProcVars, osVars, todo>>

\* ---- the main process ----------------------------------------------------

\* pool.imap_unordered: results are yielded in the order the tasks finish
Collect_unordered ==
    /\ apc = "imap"
    /\ Len(imap_results) < urls
    /\ \E i \in Tasks :
          /\ outcome[i] # NoOutcome
          /\ \A k \in 1 .. Len(imap_results) : imap_results[k].url # i
          /\ imap_results' = Append(imap_results, outcome[i])
    /\ UNCHANGED <<helperVars, discoverVars, swept, batchVars, apc, interrupted, success_count, failed_count,
                   workerVars, CHROME_PIDS, osVars>>

\* pool.imap yields the result of the next task in submission order
Collect ==
    /\ apc = "imap"
    /\ Len(imap_results) < urls
    /\ outcome[Len(imap_results) + 1] # NoOutcome
    /\ imap_results' = Append(imap_results, outcome[Len(imap_results) + 1])
    /\ UNCHANGED <<helperVars, discoverVars, swept, batchVars, apc, interrupted, success_count, failed_count,
                   workerVars, CHROME_PIDS, osVars>>

\* the with block ends: Pool.__exit__ calls terminate(), which sends
\* SIGTERM to every worker
PoolExit ==
    /\ \/ apc = "imap" /\ Len(imap_results) = urls /\ apc' = "summary"
       \/ apc = "unwind" /\ apc' = "final"
    /\ Signalled(pool)
    /\ UNCHANGED <<helperVars, discoverVars, swept, batchVars, imap_results, interrupted, success_count,
                   failed_count, CHROME_PIDS, osVars>>

\* success_count, failed and the printed summary
Summary ==
    /\ apc = "summary"
    /\ success_count' = Cardinality({i \in 1 .. Len(imap_results) : imap_results[i].success})
    /\ failed_count' = Cardinality({i \in 1 .. Len(imap_results) : ~imap_results[i].success})
    /\ apc' = "final"
    /\ UNCHANGED <<helperVars, discoverVars, swept, batchVars, imap_results, interrupted,
                   workerVars, CHROME_PIDS, osVars>>

\* finally: cleanup_all_chrome(), then the atexit hook: the main process
\* never added a pid to its CHROME_PIDS, the loop has nothing to kill
FinalCleanup ==
    /\ apc = "final"
    /\ CHROME_PIDS[0] = {}
    /\ CHROME_PIDS' = [CHROME_PIDS EXCEPT ![0] = {}]
    /\ apc' = "exited"
    /\ UNCHANGED <<helperVars, discoverVars, swept, batchVars, imap_results, interrupted, success_count,
                   failed_count, workerVars, osVars>>

\* signal_handler in the main process: cleanup_all_chrome() over its own
\* (empty) CHROME_PIDS, then sys.exit(0) unwinds main()
MainHandler ==
    /\ apc = "imap"
    /\ ~interrupted
    /\ interrupted' = TRUE
    /\ CHROME_PIDS[0] = {}
    /\ apc' = "unwind"

\* SIGINT or SIGTERM is sent to the main process alone (kill <pid>)
InterruptMain ==
    /\ MainHandler
    /\ UNCHANGED <<helperVars, discoverVars, swept, batchVars, imap_results, success_count, failed_count,
                   workerVars, CHROME_PIDS, osVars>>

\* Ctrl-C: SIGINT goes to the foreground process group, the main process
\* and every worker (the audit processes are in sessions of their own)
InterruptGroup ==
    /\ MainHandler
    /\ Signalled(pool)
    /\ UNCHANGED <<helperVars, discoverVars, swept, batchVars, imap_results, success_count, failed_count,
                   CHROME_PIDS, osVars>>

\* ---- the specifications --------------------------------------------------

\* one worker of the pool and the process trees of its tasks
InitTree ==
    \E n \in 1 .. TreeUrls : InitAudit(n, {1})

NextTree ==
    \/ \E w \in pool : Launch(w)
    \/ \E w \in pool : LaunchFails(w)
    \/ \E w \in pool : Track(w)
    \/ \E w \in pool : Completed(w)
    \/ \E w \in pool : Timeout(w)
    \/ \E w \in pool : Finish(w)
    \/ \E w \in pool : KillEnum(w)
    \/ \E w \in pool : KillTermChildren(w)
    \/ \E w \in pool : KillStragglers(w)
    \/ \E w \in pool : KillTermParent(w)
    \/ \E w \in pool : KillWaitParent(w)
    \/ \E w \in pool : HandlerSweep(w)
    \/ \E i \in Tasks : Spawn(i)
    \/ \E i \in Tasks : DescExit(i)
    \/ \E i \in Tasks : RootExit(i)
    \/ Collect
    \/ PoolExit
    \/ Summary
    \/ FinalCleanup
    \/ InterruptMain
    \/ InterruptGroup

SpecTree == InitTree /\ [][NextTree]_vars

\* the whole pool; the audit processes spawn nothing
InitPool ==
    \E n \in 1 .. NumUrls : InitAudit(n, Workers)

NextPool ==
    \/ \E w \in pool : Launch(w)
    \/ \E w \in pool : LaunchFails(w)
    \/ \E w \in pool : Track(w)
    \/ \E w \in pool : Completed(w)
    \/ \E w \in pool : Timeout(w)
    \/ \E w \in pool : Finish(w)
    \/ \E w \in pool : KillEnum(w)
    \/ \E w \in pool : KillTermChildren(w)
    \/ \E w \in pool : KillStragglers(w)
    \/ \E w \in pool : KillTermParent(w)
    \/ \E w \in pool : KillWaitParent(w)
    \/ \E w \in pool : HandlerSweep(w)
    \/ \E i \in Tasks : RootExit(i)
    \/ Collect
    \/ PoolExit
    \/ Summary
    \/ FinalCleanup
    \/ InterruptMain
    \/ InterruptGroup

SpecPool == InitPool /\ [][NextPool]_vars

\* SIGINT or SIGTERM is sent to one worker process alone (kill <pid>), once
\* in the life of that process
InterruptWorker(w) ==
    /\ apc = "imap"
    /\ wpc[w] \notin {"absent", "exited"}
    /\ ctx[w] # "handler"
    /\ Signalled({w})
    /\ UNCHANGED <<helperVars, discoverVars, swept, batchVars, mainProcVars, CHROME_PIDS, osVars>>

\* Pool(processes=workers): the pool replaces a worker process that has
\* exited by a new one, which starts with the CHROME_PIDS of the module
Repopulate(w) ==
    /\ apc = "imap"
    /\ wpc[w] = "exited"
    /\ wpc' = [wpc EXCEPT ![w] = "idle"]
    /\ CHROME_PIDS' = [CHROME_PIDS EXCEPT ![w] = {}]
    /\ UNCHANGED <<helperVars, discoverVars, swept, batchVars, mainProcVars, osVars,
                   wtask, ctx, kpid, children, todo, termed, killed>>

\* a pool of two of the worker processes
SmallPool == {1, 2}

\* the pool with one url more than it has workers; the audit processes
\* spawn nothing
InitWorkers ==
    InitAudit(Cardinality(SmallPool) + 1, SmallPool)

NextWorkers ==
    \/ \E w \in pool : Launch(w)
    \/ \E w \in pool : LaunchFails(w)
    \/ \E w \in pool : Track(w)
    \/ \E w \in pool : Completed(w)
    \/ \E w \in pool : Timeout(w)
    \/ \E w \in pool : Finish(w)
    \/ \E w \in pool : KillEnum(w)
    \/ \E w \in pool : KillTermChildren(w)
    \/ \E w \in pool : KillStragglers(w)
    \/ \E w \in pool : KillTermParent(w)
    \/ \E w \in pool : KillWaitParent(w)
    \/ \E w \in pool : HandlerSweep(w)
    \/ \E w \in pool : InterruptWorker(w)
    \/ \E w \in pool : Repopulate(w)
    \/ \E i \in Tasks : RootExit(i)
    \/ Collect
    \/ PoolExit
    \/ Summary
    \/ FinalCleanup

SpecWorkers == InitWorkers /\ [][NextWorkers]_vars

(***************************************************************************)
(* The helpers of discover.py called on their own                          *)
(***************************************************************************)
\* sequences of at most n elements of S
SeqsUpTo(S, n) == UNION {[1 .. k -> S] : k \in 0 .. n}

\* pieces of the raw strings
Pieces == {" ", "/", ":", ".", "www", "WWW", "a", "A"}

\* normalize_domain on every raw string of at most MaxLen pieces
InitNormalize ==
    /\ AuditIdle
    /\ DiscoverIdle
    /\ call = "none"
    /\ arg \in SeqsUpTo(Pieces, MaxLen)
    /\ val = <<>>

\* d = normalize_domain(raw)
Normalize ==
    /\ call = "none"
    /\ call' = "normalize_domain"
    /\ val' = normalize_domain(arg)
    /\ UNCHANGED <<discoverVars, auditVars, arg>>

\* normalize_domain(d), on the result of the first call
NormalizeAgain ==
    /\ call = "normalize_domain"
    /\ call' = "normalize_domain again"
    /\ arg' = val
    /\ val' = normalize_domain(val)
    /\ UNCHANGED <<discoverVars, auditVars>>

NextNormalize ==
    \/ Normalize
    \/ NormalizeAgain

SpecNormalize == InitNormalize /\ [][NextNormalize]_vars

\* the parts a URL is written from
Schemes == {<<>>, <<"http", ":", "/", "/">>, <<"HTTPS", ":", "/", "/">>}
WwwPrefixes == {<<>>, <<"www", ".">>, <<"WWW", ".">>}
HostSpellings == {<<"a", ".", "com">>, <<"A", ".", "COM">>,
                  <<"b", ".", "com">>, <<"B", ".", "com">>}
Ports == {<<>>, <<":", "443">>}
Paths == {<<>>, <<"/">>, <<"/", "x">>, <<"/", "x", "/", "/", "y">>}

Url(scheme, www, host, port, path) ==
    scheme \o www \o host \o port \o path

\* two URLs of one host that differ in scheme, letter case, www prefix,
\* port and path, or the empty string twice
InitUrl ==
    /\ AuditIdle
    /\ DiscoverIdle
    /\ call = "none"
    /\ \/ \E h1, h2 \in HostSpellings, s1, s2 \in Schemes, w1, w2 \in WwwPrefixes,
             p1, p2 \in Ports, t1, t2 \in Paths :
             /\ lower(h1) = lower(h2)
             /\ arg = <<Url(s1, w1, h1, p1, t1), Url(s2, w2, h2, p2, t2)>>
       \/ arg = <<<<>>, <<>>>>
    /\ val = <<>>

\* normalize_domain on each of the two
NormalizeBoth ==
    /\ call = "none"
    /\ call' = "normalize_domain"
    /\ val' = <<normalize_domain(arg[1]), normalize_domain(arg[2])>>
    /\ UNCHANGED <<discoverVars, auditVars, arg>>

NextUrl ==
    \/ NormalizeBoth

SpecUrl == InitUrl /\ [][NextUrl]_vars

\* hosts of the URLs given to unique_sorted
SampleHosts ==
    {<<"a", ".", "com">>, <<"A", ".", "COM">>, <<"b", ".", "com">>, <<"localhost">>,
     <<"8", ".", "8", ".", "4", ".", "4">>, <<"a*250", ".", "com">>}

\* the URLs given to unique_sorted: the hosts written with or without
\* scheme, www prefix and path, and the empty string
Samples ==
    {<<>>} \cup
    {Url(sc, w, h, <<>>, t) : sc \in {<<>>, <<"HTTPS", ":", "/", "/">>},
                              w \in {<<>>, <<"www", ".">>},
                              h \in SampleHosts,
                              t \in {<<>>, <<"/", "x">>, <<"/", "x", "/", "/", "y">>}}

InitUnique ==
    /\ AuditIdle
    /\ DiscoverIdle
    /\ call = "none"
    /\ arg \in SeqsUpTo(Samples, MaxList)
    /\ val = <<>>

\* nd = unique_sorted(res)
UniqueSorted ==
    /\ call = "none"
    /\ call' = "unique_sorted"
    /\ val' = unique_sorted(arg)
    /\ UNCHANGED <<discoverVars, auditVars, arg>>

NextUnique ==
    \/ UniqueSorted

SpecUnique == InitUnique /\ [][NextUnique]_vars

(***************************************************************************)
(* The output slug of run_lighthouse, for the entries of configs/domains.txt*)
(***************************************************************************)
\* the literals "https://" and "http://"
https_scheme == <<"https", ":", "/", "/">>
http_scheme == <<"http", ":", "/", "/">>

\* s.startswith(prefix)
startswith(s, prefix) ==
    Len(s) >= Len(prefix) /\ SubSeq(s, 1, Len(prefix)) = prefix

\* s.replace(old, ""): every occurrence of old, from left to right
RECURSIVE replace_empty(_, _)
replace_empty(s, old) ==
    IF Len(s) < Len(old) THEN s
    ELSE IF startswith(s, old) THEN replace_empty(SubSeq(s, Len(old) + 1, Len(s)), old)
    ELSE <<s[1]>> \o replace_empty(Tail(s), old)

\* c.isalnum() for the characters of a piece
isalnum(c) ==
    c \in {"a", "b", "x", "com", "http", "https"}

\* slug = url.replace("https://", "").replace("http://", "") and the
\* replacement of every character other than alphanumerics, ".", "_", "-"
slug(url) ==
    LET s == replace_empty(replace_empty(url, https_scheme), http_scheme)
    IN  [i \in 1 .. Len(s) |-> IF isalnum(s[i]) \/ s[i] \in {".", "_", "-"} THEN s[i] ELSE "_"]

\* d if d.startswith("http") else f"https://{d}"
url_of(d) ==
    IF Len(d) >= 1 /\ d[1] \in {"http", "https"} THEN d ELSE https_scheme \o d

\* the lines of configs/domains.txt: two hosts, written with or without a
\* scheme, alone or followed by a path, by a name part, or by a query that
\* holds a url
DomainEntries ==
    {sc \o h \o t : sc \in {<<>>, http_scheme, https_scheme},
                    h \in {<<"a", ".", "com">>, <<"b", "-", "a", ".", "com">>},
                    t \in {<<>>, <<"/", "x">>, <<"_", "x">>,
                           <<"/", "http", ":", "/", "/", "x">>}}

InitSlug ==
    /\ AuditIdle
    /\ DiscoverIdle
    /\ call = "none"
    /\ arg \in SeqsUpTo(DomainEntries, MaxList)
    /\ val = <<>>

\* the slug each task of pool.imap(run_lighthouse, urls) computes
Slugs ==
    /\ call = "none"
    /\ call' = "slug"
    /\ val' = [i \in 1 .. Len(arg) |-> slug(url_of(arg[i]))]
    /\ UNCHANGED <<discoverVars, auditVars, arg>>

NextSlug ==
    \/ Slugs

SpecSlug == InitSlug /\ [][NextSlug]_vars

(***************************************************************************)
(* The domains file as run_parallel.py and main.py read it                 *)
(***************************************************************************)
\* the lines of configs/domains.txt without their line ends: blank lines,
\* comments at the start of the line and indented, and hosts with and
\* without scheme, padded with blanks, or with a name that begins with http
DomainLines ==
    {<<>>, <<" ">>, <<"#", "x">>, <<" ", "#", "x">>,
     <<"a", ".", "com">>, <<" ", "a", ".", "com", " ">>,
     https_scheme \o <<"a", ".", "com">>, http_scheme \o <<"a", ".", "com">>,
     <<"http", "-", "a", ".", "com">>}

\* [line.strip() for line in f if line.strip() and not line.startswith("#")]
domains(f) ==
    LET kept(line) == strip(line) # <<>> /\ ~startswith(line, <<"#">>)
        lines == SelectSeq(f, kept)
    IN  [i \in 1 .. Len(lines) |-> strip(lines[i])]

\* [l.strip() for l in f if l.strip() and not l.strip().startswith("#")]
raw_lines(f) ==
    LET kept(l) == strip(l) # <<>> /\ ~startswith(strip(l), <<"#">>)
        lines == SelectSeq(f, kept)
    IN  [i \in 1 .. Len(lines) |-> strip(lines[i])]

\* [d if d.startswith("http") else f"https://{d}" for d in domains]
urls_of(ds) ==
    [i \in 1 .. Len(ds) |-> url_of(ds[i])]

InitDomains ==
    /\ AuditIdle
    /\ DiscoverIdle
    /\ call = "none"
    /\ arg \in SeqsUpTo(DomainLines, MaxList)
    /\ val = <<>>

\* main() of run_parallel.py up to its list of urls
LoadDomains ==
    /\ call = "none"
    /\ call' = "run_parallel"
    /\ val' = urls_of(domains(arg))
    /\ UNCHANGED <<discoverVars, auditVars, arg>>

\* main() of main.py up to its list of urls
CompileDomains ==
    /\ call = "none"
    /\ call' = "main"
    /\ val' = urls_of(raw_lines(arg))
    /\ UNCHANGED <<discoverVars, auditVars, arg>>

NextDomains ==
    \/ LoadDomains
    \/ CompileDomains

SpecDomains == InitDomains /\ [][NextDomains]_vars

\* backoff_delays(base, max_s, attempts) for positive base and cap
InitBackoff ==
    /\ AuditIdle
    /\ DiscoverIdle
    /\ call = "none"
    /\ arg \in [base : 1 .. MaxSeconds, max_s : 1 .. MaxSeconds, attempts : 0 .. MaxAttempts]
    /\ val = <<>>

Backoff ==
    /\ call = "none"
    /\ call' = "backoff_delays"
    /\ val' = backoff_delays(arg.base, arg.max_s, arg.attempts)
    /\ UNCHANGED <<discoverVars, auditVars, arg>>

NextBackoff ==
    \/ Backoff

SpecBackoff == InitBackoff /\ [][NextBackoff]_vars

\* lines of a robots.txt
RobotsLines ==
    {<<>>,
     <<"User-agent", ":", " ", "*">>,
     <<"Disallow", ":", " ", "/">>,
     <<"Crawl-delay", ":", " ", "2", ".", "5">>,
     <<" ", " ", "CRAWLDELAY", " ", ":", "3", " ">>,
     <<"crawl-delay", ":", " ", "5", " ", "#", " ", "x">>,
     <<"crawl-delay", ":", " ", "x">>,
     <<"#", " ", "crawl-delay", ":", " ", "3">>}

InitCrawl ==
    /\ AuditIdle
    /\ DiscoverIdle
    /\ call = "none"
    /\ arg \in SeqsUpTo(RobotsLines, MaxLines)
    /\ val = <<>>

\* delay = parse_crawl_delay(txt)
ParseCrawlDelay ==
    /\ call = "none"
    /\ call' = "parse_crawl_delay"
    /\ val' = parse_crawl_delay(arg)
    /\ UNCHANGED <<discoverVars, auditVars, arg>>

NextCrawl ==
    \/ ParseCrawlDelay

SpecCrawl == InitCrawl /\ [][NextCrawl]_vars

\* jitter percentages a provider is configured with
JitterValues == {0, 20, 50, 100, 200}

InitLimiter ==
    /\ AuditIdle
    /\ DiscoverIdle
    /\ call = "none"
    /\ arg \in [rps : -1 .. MaxRps, jitter_pct : JitterValues]
    /\ val = <<>>

\* self._limiter.wait()
Wait ==
    /\ call = "none"
    /\ call' = "wait"
    /\ \E k \in -JitterSteps .. JitterSteps :
          val' = wait(arg.rps, arg.jitter_pct, k)
    /\ UNCHANGED <<discoverVars, auditVars, arg>>

NextLimiter ==
    \/ Wait

SpecLimiter == InitLimiter /\ [][NextLimiter]_vars

(***************************************************************************)
(* Claims about the search providers (SpecProvider)                        *)
(***************************************************************************)
InCall(p) ==
    \/ p = "google_cse" /\ qpc = "g_try"
    \/ p = "duckduckgo" /\ qpc = "d_try"

\* C1: the quota is a hard ceiling. queries_made never exceeds
\* daily_quota_threshold, and a query call made while the provider is at its
\* threshold returns an empty list, leaves queries_made unchanged and issues
\* no remote request.
C1_QuotaHardCeiling ==
    /\ [](\A p \in Providers : queries_made[p] <= daily_quota_threshold[p])
    /\ [][(qpc = "idle" /\ \A p \in Range(providers) : ~can_continue(p))
            => /\ ret' = 0
               /\ queries_made' = queries_made
               /\ qpc' = "idle"
               /\ last' \notin RequestSteps]_vars

\* a provider with a quota of at least 1 has used it up and a further call
\* was refused
C1_Witness ==
    /\ last = "blocked"
    /\ \E p \in Range(providers) :
          queries_made[p] = daily_quota_threshold[p] /\ queries_made[p] >= 1

\* C2: under persistent retryable failure GoogleCSEProvider.query issues at
\* most retry_attempts requests for one page.
C2_AtMostRetryAttemptsRequests ==
    qpc = "g_try" => attempt <= retry_attempts["google_cse"]

\* C3: every call the quota check admits increments queries_made by exactly
\* one, whatever happens inside it: while the call runs the counter is
\* still the old one, when it has returned the counter is the number of
\* admitted calls.
C3_OneIncrementPerAdmittedCall ==
    \A p \in Providers :
        queries_made[p] = IF InCall(p) THEN admitted[p] - 1 ELSE admitted[p]

\* a Google call has returned a result after a retried request, and a
\* second admitted call found the counter at one
C3_Witness ==
    /\ qpc = "idle"
    /\ last = "http_ok"
    /\ attempt >= 2
    /\ ret >= 1
    /\ queries_made["google_cse"] = 2

\* C10: once a query call of the keyed-API provider has received a
\* non-retryable status it issues no further HTTP request.
C10_NoRequestAfterTerminalStatus ==
    [][(terminal /\ qpc = "g_try") => last' \notin RequestSteps]_vars

\* C12: DuckDuckGoProvider.query makes at most retry_attempts attempts in one
\* call. A failing attempt n < retry_attempts is followed by the sleep of
\* delays[n - 1] and another attempt, the failing attempt number
\* retry_attempts ends the call, and the call returns what was collected,
\* cut to max_results, possibly nothing.
C12_DdgAtMostRetryAttempts ==
    LET budget == retry_attempts["duckduckgo"]
    IN  /\ qpc = "d_try" => attempt < budget
        /\ last = "ddg_retry" => attempt \in 1 .. Len(delays("duckduckgo"))
        /\ last = "ddg_giveup" =>
              /\ attempt = budget
              /\ qpc = "idle"
              /\ ret = Min(results, max_results)
        /\ last = "ddg_ok" => attempt <= budget /\ ret = Min(results, max_results)

\* the first attempt failed and was retried, the second, the last the
\* budget allows, failed too and the call returned what it had collected
C12_Witness ==
    /\ last = "ddg_giveup"
    /\ retry_attempts["duckduckgo"] = 2
    /\ attempt = 2
    /\ ret >= 1

\* C11: with a credential of the keyed-API provider absent, a query call
\* under quota increments queries_made by one, returns an empty list and
\* issues no network request (the call is over in the same step: nothing
\* is raised and no retry loop is entered).
C11_MissingCredentialsFailSoft ==
    [][(qpc = "idle" /\ providers = <<"google_cse">> /\ ~api_key_cx
          /\ can_continue("google_cse"))
         => /\ queries_made' = [queries_made EXCEPT !["google_cse"] = @ + 1]
            /\ ret' = 0
            /\ qpc' = "idle"
            /\ last' \notin RequestSteps]_vars

\* two calls without credentials were counted and the third met the quota
C11_Witness ==
    /\ providers = <<"google_cse">>
    /\ ~api_key_cx
    /\ queries_made["google_cse"] = 2
    /\ admitted["google_cse"] = 2
    /\ ret = 0
    /\ last = "blocked"

\* C29: the keyed-API provider only ever requests the first page: with page
\* size 10 and the default max-results, a query call whose first request
\* succeeds issues no second page request, the cursor-advance path being
\* unreachable. No call is about to issue a request with an advanced cursor
\* after a request that succeeded.
C29_OnlyFirstPage ==
    ~(/\ max_results = default_max_results
      /\ qpc = "g_try"
      /\ last = "http_ok"
      /\ start_index > 1)

(***************************************************************************)
(* Claims about the discovery loop (SpecDiscover)                          *)
(***************************************************************************)
IndexOf(p) ==
    CHOOSE i \in 1 .. Len(providers) : providers[i] = p

\* (keyword, provider) pairs of provider p the loop has dealt with or is
\* querying
PairsEntered(p) ==
    LET row == IF kw > keywords THEN keywords ELSE kw - 1
        cur == IF kw <= keywords
                  /\ (IndexOf(p) < pv \/ (IndexOf(p) = pv /\ mpc = "query"))
               THEN 1 ELSE 0
    IN  row + cur

\* C9: for every keyword and every enabled provider the loop issues exactly
\* one query if the provider is under quota and none otherwise, no pair is
\* tried twice, a provider once skipped stays skipped, and at the end
\* provider p has received min(number of keywords, quota of p) queries.
C9_OneQueryPerPairUnderQuota ==
    \A p \in Range(providers) :
        /\ issued[p] + skipped[p] = PairsEntered(p)
        /\ skipped[p] > 0 => ~can_continue(p)
        /\ issued[p] <= daily_quota_threshold[p]
        /\ mpc = "done" => issued[p] = Min(keywords, daily_quota_threshold[p])

\* both providers ran; one reached its quota and was skipped for a later
\* keyword while the other received every keyword
C9_Witness ==
    /\ mpc = "done"
    /\ Len(providers) = 2
    /\ \E p, q \in Range(providers) :
          /\ issued[p] >= 1 /\ skipped[p] >= 1
          /\ issued[q] = keywords /\ skipped[q] = 0

\* C28: at the end of the discovery run the usage summary holds, for every
\* provider, queries_made equal to that provider's own counter, which equals
\* the number of query calls the loop issued to it, and domains equal to the
\* sum over those calls of the number of distinct non-empty normalized
\* domains the call returned.
C28_UsageSummary ==
    mpc = "done" =>
        \A p \in Range(providers) :
            /\ provider_usage[p].queries_made = queries_made[p]
            /\ queries_made[p] = issued[p]
            /\ provider_usage[p].domains = contributed[p]

\* a run in which a provider answered two calls with domains
C28_Witness ==
    /\ mpc = "done"
    /\ \E p \in Range(providers) :
          /\ issued[p] = 2
          /\ provider_usage[p] = [queries_made |-> 2, domains |-> 2]

(***************************************************************************)
(* Claims about the discovery run from its start (SpecRun)                 *)
(***************************************************************************)
\* the configuration is in error: keywords missing, empty or not a list, or
\* the output path not writable
ConfigError ==
    cfg_keywords # "list" \/ ~writable

\* C13: configuration errors are fatal before any work. With a keyword list
\* that is missing, empty or not a list, or an output path that cannot be
\* written, the run stops before it constructs or queries a provider: no
\* provider exists, robots.txt is not fetched, no query call is made and
\* the run does not end normally.
C13_ConfigErrorsFatalBeforeWork ==
    ConfigError =>
        /\ providers = <<>>
        /\ robots_fetched = 0
        /\ \A p \in Providers : admitted[p] = 0
        /\ mpc # "done"

(***************************************************************************)
(* Claims about one worker and its process trees (SpecTree)                *)
(***************************************************************************)
\* the main process and every worker have left their signal handlers and
\* exited after an interrupt
InterruptHandled ==
    /\ interrupted
    /\ apc = "exited"
    /\ \A w \in pool : wpc[w] = "exited"

\* C4: an interrupted batch leaves no orphaned external process. Once the
\* interrupt handlers have finished, no audit process the batch launched and
\* no descendant of one is alive, wherever the signal arrived (between
\* Popen and CHROME_PIDS.add included).
C4_NoOrphanAfterInterrupt ==
    InterruptHandled => \A i \in Tasks : root[i] # "alive" /\ descAlive[i] = {}

\* C6: when the audit process does not exit before the timeout,
\* run_lighthouse returns a failed outcome with the timeout error, and at
\* its return the root and every descendant are terminated and the root
\* pid is not in the registry.
C6_TimeoutKillsTree ==
    \A i \in Tasks :
        (outcome[i] # NoOutcome /\ outcome[i].error = "timeout")
            => /\ ~outcome[i].success
               /\ root[i] # "alive"
               /\ descAlive[i] = {}
               /\ \A p \in 0 .. workers : i \notin CHROME_PIDS[p]

(***************************************************************************)
(* Claims about the pool (SpecPool)                                        *)
(***************************************************************************)
\* C5: registry cleanup is unconditional. Whatever path run_lighthouse took
\* (exit status zero or not, timeout, launch failure, another exception),
\* when it has returned the pid of its audit process is in no registry, and
\* a worker between two tasks has an empty registry.
C5_RegistryCleanupUnconditional ==
    /\ \A i \in Tasks :
          outcome[i] # NoOutcome => \A p \in 0 .. workers : i \notin CHROME_PIDS[p]
    /\ \A w \in pool : wpc[w] = "idle" => CHROME_PIDS[w] = {}

\* one run_lighthouse returned after a timeout and another after a natural
\* exit with a failure, both having registered their pid
C5_Witness ==
    /\ \E i \in Tasks : outcome[i].error = "timeout"
    /\ \E i \in Tasks : outcome[i].error \in {"stderr", "exception"} /\ root[i] = "reaped"
    /\ \A w \in pool : CHROME_PIDS[w] = {}

\* main() has left the with block without having been interrupted
BatchDone ==
    ~interrupted /\ apc \in {"summary", "final", "exited"}

\* C7: the orchestrator returns exactly one outcome per input domain in the
\* order of the input list, whatever the completion order of the workers
\* and whichever tasks fail; no failure keeps another task from running,
\* and successes plus failures is the number of domains.
C7_OneOutcomePerDomainInOrder ==
    /\ \A k \in 1 .. Len(imap_results) :
          imap_results[k].url = k /\ imap_results[k] = outcome[k]
    /\ BatchDone =>
          /\ Len(imap_results) = urls
          /\ \A i \in Tasks : outcome[i] # NoOutcome
    /\ (BatchDone /\ apc # "summary") =>
          /\ success_count + failed_count = urls
          /\ success_count = Cardinality({i \in Tasks : outcome[i].success})

\* a finished batch in which a task returned before one submitted earlier,
\* one task succeeded and one failed
C7_Witness ==
    /\ ~interrupted
    /\ apc = "exited"
    /\ overtaken
    /\ success_count >= 1
    /\ failed_count >= 1

\* C8: once the audit run has received an interrupt signal, no further audit
\* task is dispatched.
C8_NoDispatchAfterInterrupt ==
    [][interrupted => next_task' = next_task]_vars

(***************************************************************************)
(* Claims about the helpers of discover.py                                 *)
(***************************************************************************)
\* C16: normalize_domain is idempotent for every input string: applied to
\* its own result it returns that result.
C16_NormalizeIdempotent ==
    call = "normalize_domain again" => val = arg

\* C17: normalize_domain maps two URLs that differ only in scheme, letter
\* case, a leading www., port or trailing path to the same domain, and the
\* empty string to the empty string.
C17_NormalizeCollapsesVariants ==
    call = "normalize_domain" =>
        /\ val[1] = val[2]
        /\ \A i \in 1 .. 2 : arg[i] = <<>> => val[i] = <<>>

\* the host a sample is written from, in lower case
Site(raw) ==
    IF raw = <<>> THEN <<>>
    ELSE lower(CHOOSE h \in SampleHosts :
                 \E sc \in Schemes, w \in WwwPrefixes, t \in Paths :
                     raw = Url(sc, w, h, <<>>, t))

\* C14: the discovery output is canonical. The list unique_sorted returns
\* is strictly ascending (sorted, no duplicates), holds no empty entry,
\* equals as a set the non-empty normalize_domain values of its input, and
\* inputs that differ only in scheme, case, www prefix or path collapse to
\* one entry.
C14_OutputCanonical ==
    call = "unique_sorted" =>
        /\ \A i \in 1 .. Len(val) - 1 : str_less(val[i], val[i + 1])
        /\ \A i \in 1 .. Len(val) : val[i] # <<>>
        /\ Range(val) = {normalize_domain(arg[i]) : i \in 1 .. Len(arg)} \ {<<>>}
        /\ Cardinality(Range(val)) = Cardinality({Site(arg[i]) : i \in 1 .. Len(arg)} \ {<<>>})

\* C15: invalid domains never reach the discovery output: every entry of
\* the list unique_sorted returns is a valid domain.
C15_NoInvalidDomainInOutput ==
    call = "unique_sorted" => \A i \in 1 .. Len(val) : is_valid(val[i])

\* C18: backoff_delays(base, max, attempts) returns max(0, attempts - 1)
\* terms, the i-th (from 0) being base * 2^i capped at max, so that every
\* term is at most max and the sequence is non-decreasing.
C18_BackoffGeometricCapped ==
    call = "backoff_delays" =>
        /\ Len(val) = Max(0, arg.attempts - 1)
        /\ \A i \in 1 .. Len(val) :
              /\ val[i] = Min(arg.base * 2 ^ (i - 1), arg.max_s)
              /\ val[i] <= arg.max_s
              /\ i > 1 => val[i - 1] <= val[i]

\* the number a line gives after its crawl-delay directive: the digits and
\* points that follow the colon
directive_number(line) ==
    LET e == prefix_end(line, 1)
        stop == Least({j \in e .. Len(line) : line[j] \notin NumberPieces}
                      \cup {Len(line) + 1})
    IN  SubSeq(line, e, stop - 1)

\* the line carries a crawl-delay directive with a number
carries_directive(line) ==
    prefix_end(line, 1) # 0 /\ is_float(directive_number(line))

\* C19: parse_crawl_delay returns the number of the first line, in document
\* order, that carries a case-insensitive crawl-delay directive, and none
\* exactly when no line carries one.
C19_FirstCrawlDelayWins ==
    call = "parse_crawl_delay" =>
        LET M == {k \in 1 .. Len(arg) : carries_directive(arg[k])}
        IN  val = IF M = {} THEN <<>> ELSE directive_number(arg[Least(M)])

\* C20: RateLimiter.wait never sleeps when rps <= 0; when rps > 0 it sleeps
\* at most once per call, for a delay inside [interval - j, interval + j]
\* with interval = 1/rps and j = interval * jitter_pct/100, never for a
\* negative delay, and for exactly the interval when jitter is zero.
C20_LimiterSleep ==
    call = "wait" =>
        LET i == Q(2, arg.rps)
            j == Q(2 * arg.jitter_pct, 100 * arg.rps)
        IN  /\ arg.rps <= 0 => val = <<>>
            /\ Len(val) <= 1
            /\ \A n \in 1 .. Len(val) :
                  /\ q_le(q_add(i, Q(-j.num, j.den)), val[n])
                  /\ q_le(val[n], q_add(i, j))
                  /\ val[n].num >= 0
            /\ arg.rps > 0 /\ arg.jitter_pct = 0 =>
                  Len(val) = 1 /\ q_eq(val[1], i)

\* a limiter of 2 requests per second without jitter has slept half a second
C20_Witness ==
    /\ call = "wait"
    /\ arg.rps = 4 /\ arg.jitter_pct = 0
    /\ Len(val) = 1 /\ q_eq(val[1], Q(1, 2))

\* number of times the log shows the limiter invoked
LimiterCalls(log) ==
    Cardinality({i \in 1 .. Len(log) : log[i].kind = "limiter"})

\* C21: the provider's rate limiter is invoked exactly once before every
\* remote request the provider issues, including each pagination request and
\* each request re-issued after a retryable failure, and it is not invoked
\* when no remote request follows.
C21_LimiterOncePerRequest ==
    /\ qpc \in {"g_try", "d_try"} => LimiterCalls(pauses) = 1
    /\ qpc = "idle" => LimiterCalls(pauses) = 0

(***************************************************************************)
(* Claims about the DuckDuckGo provider and robots.txt (SpecDdg)           *)
(***************************************************************************)
\* the cached crawl-delay in seconds, 0 when there is none
CachedDelay ==
    IF ddg_crawl_delay = <<>> THEN Q(0, 1) ELSE ddg_crawl_delay[1]

\* C22: the library-backed provider checks robots exactly once, at
\* construction, and never again for any number of queries; before each query
\* that reaches the external dependency it first waits on its rate limiter
\* and then sleeps the cached crawl-delay, so the total politeness wait is
\* the sum of the two, not their maximum.
C22_RobotsOnceDelaysAdd ==
    /\ robots_fetched = 1
    /\ ddg_crawl_delay = fetch_robots_and_delay(robots_resp).delay
    /\ qpc = "d_try" /\ attempt = 0 =>
          /\ Len(pauses) = 2
          /\ pauses[1].kind = "limiter"
          /\ pauses[2].kind = "crawl_delay"
          /\ q_eq(slept(pauses), q_add(slept(<<pauses[1]>>), CachedDelay))
          /\ rate_limit_rps > 0 /\ jitter_percent = 0 =>
                q_eq(slept(<<pauses[1]>>), Q(2, rate_limit_rps))

\* the second query of a provider with the default rate and a crawl-delay of
\* 2.5 s has waited 2 s + 2.5 s before its first attempt
C22_Witness ==
    /\ qpc = "d_try" /\ attempt = 0
    /\ queries_made["duckduckgo"] = 1
    /\ rate_limit_rps = 1 /\ jitter_percent = 0
    /\ q_eq(CachedDelay, Q(5, 2))
    /\ q_eq(slept(pauses), Q(9, 2))

\* C23: the robots check fails open: on any fetch exception or non-200
\* response fetch_robots_and_delay returns (allowed = true, crawl_delay =
\* none), and no outcome of the robots check can make a provider skip a query
\* or return fewer results: a call is refused by the quota alone, returns
\* without an attempt only when the ddgs package is missing, and otherwise
\* returns what the dependency gave, cut at max_results.
C23_RobotsFailOpen ==
    /\ robots_resp.status # 200 => ddg_allowed /\ ddg_crawl_delay = <<>>
    /\ ddg_allowed
    /\ last = "blocked" =>
          queries_made["duckduckgo"] >= daily_quota_threshold["duckduckgo"]
    /\ last = "attempt_only" => ~DDGS
    /\ qpc = "idle" /\ last \in {"ddg_ok", "ddg_giveup"} =>
          ret = Min(results, max_results)

\* the fetch of robots.txt raised and a query has returned max_results urls
C23_Witness ==
    /\ robots_resp.status = 0
    /\ qpc = "idle" /\ last = "ddg_ok"
    /\ ret = max_results /\ ret = MaxResults

(***************************************************************************)
(* Claims about kill_chrome_tree (SpecTree)                                *)
(***************************************************************************)
\* C24: the termination algorithm follows a fixed order for one root: every
\* descendant found is sent a graceful terminate before any forceful kill is
\* sent; only descendants still alive after the grace period are
\* force-killed; the root is signalled only after all its descendants have
\* been handled, first with terminate and, only if it survives the grace
\* period, with kill.
C24_TerminationOrder ==
    /\ [](\A w \in pool :
            /\ termed[w] \ {0} \subseteq children[w]
            /\ killed[w] \ {0} \subseteq termed[w]
            /\ killed[w] # {} => children[w] \subseteq termed[w]
            /\ 0 \in termed[w] => children[w] \subseteq termed[w]
            /\ 0 \in killed[w] => 0 \in termed[w])
    /\ [][\A w \in pool :
            /\ \A d \in (killed'[w] \ killed[w]) \ {0} : d \in descAlive[kpid[w]]
            /\ 0 \in termed'[w] \ termed[w] =>
                  /\ children[w] \cap descAlive[kpid[w]] = {}
                  /\ 0 \notin killed'[w]
            /\ 0 \in killed'[w] \ killed[w] =>
                  0 \in termed[w] /\ root[kpid[w]] = "alive"]_vars

\* a timed-out audit whose descendant and root both survived the terminate
\* and were killed
C24_Witness ==
    \E w \in pool :
        /\ ctx[w] = "timeout"
        /\ 1 \in children[w] /\ 1 \in termed[w] /\ 1 \in killed[w]
        /\ 0 \in termed[w] /\ 0 \in killed[w]

\* C25: the termination routine never raises: whether the root or any
\* descendant is already gone or refuses access at any step (lookup,
\* enumeration, terminate, wait, kill), kill_chrome_tree returns normally, and
\* a failure on one process does not stop the remaining descendants and the
\* root from being signalled. When the call has returned to run_lighthouse,
\* every descendant it found and the root have been signalled, and it has
\* signalled nothing only if nothing of the tree is left.
C25_CleanupNeverStops ==
    \A w \in pool :
        wpc[w] = "discard" =>
            /\ children[w] \subseteq termed[w]
            /\ termed[w] # {} => 0 \in termed[w]
            /\ termed[w] = {} => descAlive[kpid[w]] = {}

\* C33: after run_lighthouse returns following natural completion of the root
\* audit process, the whole tree has been cleaned up: no descendant the root
\* spawned is still alive once the post-completion kill_chrome_tree call has
\* run. Stated for the tasks whose outcome is that of a natural completion.
C33_TreeCleanAfterCompletion ==
    \A i \in Tasks :
        outcome[i].error \in {"none", "stderr"} => descAlive[i] = {}

(***************************************************************************)
(* Claims about the registry and its sweep (SpecPool)                      *)
(***************************************************************************)
\* C26: the interrupt-triggered registry sweep is performed exactly once and
\* is idempotent: however many times cleanup is invoked (signal handler, a
\* second signal during the sweep, atexit, the final cleanup), each
\* registered root is put through the termination algorithm at most once,
\* later invocations signal nothing, and the registry is empty after the run.
C26_SweepOnce ==
    /\ \A i \in Tasks : swept[i] <= 1
    /\ \A w \in pool : wpc[w] = "exited" => CHROME_PIDS[w] = {}
    /\ apc = "exited" => CHROME_PIDS[0] = {}

\* C27: the live-process registry is one set shared by all workers and the
\* interrupt handler: whenever a worker has launched an audit process that
\* is not yet confirmed terminated, that pid is in the registry the
\* orchestrator's interrupt handler iterates (the CHROME_PIDS of the main
\* process), and concurrent insert, remove and snapshot-iterate never lose
\* an entry. Stated for a worker that has added the pid and waits for the
\* audit process.
C27_RegistryShared ==
    \A w \in pool :
        wpc[w] = "communicate" =>
            /\ wtask[w] \in CHROME_PIDS[w]
            /\ wtask[w] \in CHROME_PIDS[0]

(***************************************************************************)
(* Claims about the output slug (SpecSlug)                                 *)
(***************************************************************************)
\* the url without its scheme
without_scheme(url) ==
    IF startswith(url, https_scheme) THEN SubSeq(url, Len(https_scheme) + 1, Len(url))
    ELSE IF startswith(url, http_scheme) THEN SubSeq(url, Len(http_scheme) + 1, Len(url))
    ELSE url

\* every character other than alphanumerics, ".", "_" and "-" replaced by "_"
filesystem_safe(s) ==
    [i \in 1 .. Len(s) |-> IF isalnum(s[i]) \/ s[i] \in {".", "_", "-"} THEN s[i] ELSE "_"]

\* C30: each audit task gets a unique, filesystem-safe output slug: the slug
\* is the URL without its scheme with every character other than
\* alphanumerics, ".", "_" and "-" replaced by "_", and two different entries
\* of the domain list never get the same slug.
C30_UniqueSlug ==
    call = "slug" =>
        \A i, j \in 1 .. Len(arg) :
            /\ val[i] = filesystem_safe(without_scheme(url_of(arg[i])))
            /\ arg[i] # arg[j] => val[i] # val[j]

(***************************************************************************)
(* Claims about the domains file (SpecDomains)                             *)
(***************************************************************************)
\* a url that begins with a scheme
has_scheme(url) ==
    startswith(url, https_scheme) \/ startswith(url, http_scheme)

\* the task of a line: the line without surrounding blanks, with https://
\* in front when it has no scheme of its own
task_of(line) ==
    IF has_scheme(strip(line)) THEN strip(line) ELSE https_scheme \o strip(line)

\* the tasks of a file: one per line that is neither blank nor a comment
tasks_of(f) ==
    LET counts(line) == strip(line) # <<>> /\ ~startswith(line, <<"#">>)
        lines == SelectSeq(f, counts)
    IN  [i \in 1 .. Len(lines) |-> task_of(lines[i])]

\* C31: audit input parsing: every non-blank line of the domains file that
\* is not a comment produces exactly one task, comment lines (starting with
\* #) produce none, and every task URL has a scheme, the line's own scheme
\* when it has one, otherwise https:// is prepended.
C31_OneTaskPerLineWithScheme ==
    call \in {"run_parallel", "main"} =>
        /\ val = tasks_of(arg)
        /\ \A i \in 1 .. Len(val) : has_scheme(val[i])

(***************************************************************************)
(* Claims about the size of the pool (SpecWorkers)                         *)
(***************************************************************************)
\* the audit processes launched by the batch that are running
Running == {i \in Tasks : root[i] = "alive"}

\* C32: bounded parallelism: at every moment of an audit run at most
\* worker_count audit processes launched by the batch are running (as many
\* as the pool has worker processes, 4 in run_parallel.py), and each worker
\* holds at most one pid in its live-process registry at a time.
C32_BoundedParallelism ==
    /\ Cardinality(Running) <= Cardinality(pool)
    /\ \A w \in pool : Cardinality(CHROME_PIDS[w]) <= 1

====
